---- MODULE Spec2Model ----
(***************************************************************************)
(* QC Buddy backend: the ranker and answer assembler (rag.js), the         *)
(* knowledge loader (knowledgeLoader.js), the ask routes (server.js) and   *)
(* the ingest script (make_knowledge.mjs).                                 *)
(*                                                                         *)
(* Strings that the code inspects character by character (texts,          *)
(* questions, markets, topics) are sequences of one-character strings.     *)
(* Strings the code only passes along (titles, fixed summaries) are        *)
(* atomic.                                                                 *)
(***************************************************************************)
EXTENDS Integers, Sequences, FiniteSets, TLC

VARIABLES
  \* ---- inputs and results of the pure ranking functions (SpecRank) ----
  question,      \* the question handed to scoreChunks / buildAnswer
  marketPref,    \* the market preference handed to them
  chunks,        \* the list getKnowledge() returns
  pcR,           \* which function has been applied: "input", then its name
  ranked,        \* result of scoreChunks
  answer,        \* result of buildAnswer on chunks
  permuted,      \* a permutation of chunks
  answerPerm,    \* result of buildAnswer on permuted
  answerLines,   \* result of buildAnswer in the variant that answers with rule lines
  generated,     \* what callGeminiAPI returned to answerOne (SpecText)
  \* ---- the server process (Spec) ----
  env,           \* process.env: whether GEMINI_KEY is set, and GEMINI_MODE
  disk,          \* the candidate directories of the knowledge loader
  _cache,        \* knowledgeLoader.js: the loaded knowledge list, or not loaded
  _aiCalls,      \* server.js: gatekeeper passes counted in the current minute
  _aiCache,      \* rag.js: generated texts by cache key
  now,           \* Date.now()
  reqs,          \* the requests on the ask routes, by arrival
  genCalls,      \* invocations of callGeminiAPI since _aiCalls was last reset (kept for
                 \* the properties; the program holds no such count)
  \* ---- the ingest script (SpecIngest, SpecClassify) ----
  ingest         \* the run of main(): mode, files, position, buckets, files written

rankVars ==
  <<question, marketPref, chunks, pcR, ranked, answer, permuted, answerPerm, answerLines,
    generated>>
srvVars == <<env, disk, _cache, _aiCalls, _aiCache, now, reqs, genCalls>>
vars == <<rankVars, srvVars, ingest>>

NONE == "none"

(***************************************************************************)
(* Bounds of the model.                                                    *)
(***************************************************************************)
MaxChunks == 3      \* longest knowledge list drawn from the chunk pool
MaxReq == 2         \* requests on the ask routes in one behaviour
MaxInFlight == 1    \* requests waiting on the generation service at once
MaxTime == 1        \* ticks of the clock in one behaviour
MaxRecords == 3     \* elements of a collection file (SpecLoad)

(***************************************************************************)
(* JavaScript string primitives on character sequences.                    *)
(***************************************************************************)
UPPER == <<"A","B","C","D","E","F","G","H","I","J","K","L","M",
           "N","O","P","Q","R","S","T","U","V","W","X","Y","Z">>
LOWER == <<"a","b","c","d","e","f","g","h","i","j","k","l","m",
           "n","o","p","q","r","s","t","u","v","w","x","y","z">>
Range(s) == {s[i] : i \in 1..Len(s)}

DIGITS == <<"0","1","2","3","4","5","6","7","8","9">>

DIGIT == Range(DIGITS)

\* a sequence given as a function, evaluated once
Eager(f) == f \o <<>>

\* the element of a set of one element.  The({ e : x \in {d} }) is e where x
\* is d, with d evaluated once.
The(S) == CHOOSE v \in S : TRUE

toLowerCaseCh(c) ==
  IF \E i \in 1..26 : UPPER[i] = c
    THEN LOWER[CHOOSE i \in 1..26 : UPPER[i] = c]
    ELSE c

toUpperCaseCh(c) ==
  IF \E i \in 1..26 : LOWER[i] = c
    THEN UPPER[CHOOSE i \in 1..26 : LOWER[i] = c]
    ELSE c

toLowerCase(s) == Eager([i \in 1..Len(s) |-> toLowerCaseCh(s[i])])

toUpperCase(s) == Eager([i \in 1..Len(s) |-> toUpperCaseCh(s[i])])

\* \w of a JavaScript regular expression
isWordCh(c) == c \in Range(UPPER) \cup Range(LOWER) \cup DIGIT \cup {"_"}

\* \s of a JavaScript regular expression (the characters the model draws)
isSpaceCh(c) == c \in {" ", "\n", "\t", "\r"}

Min2(a, b) == IF a < b THEN a ELSE b

Max2(a, b) == IF a > b THEN a ELSE b

\* String.prototype.slice(from, to) with 0 <= from <= to
slice(s, from, to) == SubSeq(s, from + 1, Min2(to, Len(s)))

\* String.prototype.startsWith at offset i (0-based)
matchAt(s, w, i) == i + Len(w) <= Len(s) /\ SubSeq(s, i + 1, i + Len(w)) = w

\* String.prototype.includes, and a regular expression that is a literal word
includes(s, w) == \E i \in 0..Len(s) : matchAt(s, w, i)

\* /w\b/ for a w ending in a word character
matchWordEnd(s, w) ==
  \E i \in 0..Len(s) :
    /\ matchAt(s, w, i)
    /\ (i + Len(w) = Len(s) \/ ~isWordCh(s[i + Len(w) + 1]))

\* /w1\s*w2/
matchGap(s, w1, w2) ==
  \E i \in 0..Len(s) :
    /\ matchAt(s, w1, i)
    /\ \E k \in 0..Len(s) :
         /\ \A d \in 1..k : i + Len(w1) + d <= Len(s) /\ isSpaceCh(s[i + Len(w1) + d])
         /\ matchAt(s, w2, i + Len(w1) + k)

\* String.prototype.trim
RECURSIVE trimStart(_)
trimStart(s) == IF s # <<>> /\ isSpaceCh(Head(s)) THEN trimStart(Tail(s)) ELSE s

RECURSIVE trimEnd(_)
trimEnd(s) ==
  IF s # <<>> /\ isSpaceCh(s[Len(s)]) THEN trimEnd(SubSeq(s, 1, Len(s) - 1)) ELSE s

trim(s) == trimEnd(trimStart(s))

(***************************************************************************)
(* fast-levenshtein: the edit distance, one row of the table at a time.    *)
(* Row i is computed from row i-1; index j+1 of a row holds column j.      *)
(* The dependency of a cell on its left neighbour is unfolded: cell j is   *)
(* the least, over k <= j, of the value reached at k from the row above    *)
(* plus the j-k insertions that follow.                                    *)
(***************************************************************************)
MinOf(S) == CHOOSE m \in S : \A y \in S : m <= y

\* the running minima of g[lo..hi], by halves
RECURSIVE prefixMins(_, _, _)
prefixMins(g, lo, hi) ==
  IF lo >= hi THEN <<g[lo]>>
  ELSE LET left == prefixMins(g, lo, (lo + hi) \div 2)
           right == prefixMins(g, (lo + hi) \div 2 + 1, hi)
       IN left \o Eager([k \in 1..Len(right) |-> Min2(left[Len(left)], right[k])])

\* the row of the character ai (the i-th) from the row before it: a cell is
\* the least of the cell above plus one, the cell above to the left plus
\* the cost of ai against the column, and the cell to the left plus one
levRow(ai, b, prev, i) ==
  LET g == Eager([k \in 1..(Len(b) + 1) |->
                    (IF k = 1 THEN i
                     ELSE Min2(prev[k] + 1,
                               prev[k - 1] + (IF ai = b[k - 1] THEN 0 ELSE 1))) - (k - 1)])
      least == prefixMins(g, 1, Len(g))
  IN Eager([k \in 1..Len(g) |-> least[k] + (k - 1)])

RECURSIVE levRows(_, _, _, _)
levRows(a, b, i, prev) ==
  IF i > Len(a) THEN prev
  ELSE levRows(a, b, i + 1, levRow(a[i], b, prev, i))

levenshtein(a, b) ==
  levRows(a, b, 1, Eager([j \in 1..(Len(b) + 1) |-> j - 1]))[Len(b) + 1]

(***************************************************************************)
(* rag.js: topic detection.                                                *)
(***************************************************************************)
T_company == <<"c","o","m","p","a","n","y">>
T_tags == <<"t","a","g","s">>
T_writing == <<"w","r","i","t","i","n","g">>
T_images == <<"i","m","a","g","e","s">>
T_zones == <<"z","o","n","e","s">>
T_misc == <<"m","i","s","c">>

\* /(company|cr\b|trade\s*license|tl\b|trn|vat|address)/
rxCompany(s) ==
  \/ \E w \in { <<"c","o","m","p","a","n","y">>, <<"t","r","n">>, <<"v","a","t">>,
                <<"a","d","d","r","e","s","s">> } : includes(s, w)
  \/ matchWordEnd(s, <<"c","r">>)
  \/ matchWordEnd(s, <<"t","l">>)
  \/ matchGap(s, <<"t","r","a","d","e">>, <<"l","i","c","e","n","s","e">>)

\* /(tag|cuisine|fast\s*food|only on careem|new restaurant|c\+)/
rxTags(s) ==
  \/ \E w \in { <<"t","a","g">>, <<"c","u","i","s","i","n","e">>,
                <<"o","n","l","y"," ","o","n"," ","c","a","r","e","e","m">>,
                <<"n","e","w"," ","r","e","s","t","a","u","r","a","n","t">>,
                <<"c","+">> } : includes(s, w)
  \/ matchGap(s, <<"f","a","s","t">>, <<"f","o","o","d">>)

\* /(capitalize|capitalisation|writing|description|customization|customisation|uppercase|lowercase)/
rxWriting(s) ==
  \E w \in { <<"c","a","p","i","t","a","l","i","z","e">>,
             <<"c","a","p","i","t","a","l","i","s","a","t","i","o","n">>,
             <<"w","r","i","t","i","n","g">>,
             <<"d","e","s","c","r","i","p","t","i","o","n">>,
             <<"c","u","s","t","o","m","i","z","a","t","i","o","n">>,
             <<"c","u","s","t","o","m","i","s","a","t","i","o","n">>,
             <<"u","p","p","e","r","c","a","s","e">>,
             <<"l","o","w","e","r","c","a","s","e">> } : includes(s, w)

\* /(image|hero|1200|1125|780|dimension|size)/
rxImages(s) ==
  \E w \in { <<"i","m","a","g","e">>, <<"h","e","r","o">>, <<"1","2","0","0">>,
             <<"1","1","2","5">>, <<"7","8","0">>,
             <<"d","i","m","e","n","s","i","o","n">>, <<"s","i","z","e">> } : includes(s, w)

\* /(zone|radius|discovery|delivery area|coverage|plan\s*a)/
rxZones(s) ==
  \/ \E w \in { <<"z","o","n","e">>, <<"r","a","d","i","u","s">>,
                <<"d","i","s","c","o","v","e","r","y">>,
                <<"d","e","l","i","v","e","r","y"," ","a","r","e","a">>,
                <<"c","o","v","e","r","a","g","e">> } : includes(s, w)
  \/ matchGap(s, <<"p","l","a","n">>, <<"a">>)

detectTopic(q) ==
  LET s == toLowerCase(q)
  IN IF rxCompany(s) THEN T_company
     ELSE IF rxTags(s) THEN T_tags
     ELSE IF rxWriting(s) THEN T_writing
     ELSE IF rxImages(s) THEN T_images
     ELSE IF rxZones(s) THEN T_zones
     ELSE T_misc

(***************************************************************************)
(* rag.js: ranking.  A chunk is a record title, market, topic, text; a     *)
(* field that is missing or the empty string is <<>> (both are falsy).     *)
(* An entry of the ranked list is {c, score}; ref is the position of c in  *)
(* the input list and stands for the identity of the object c.             *)
(***************************************************************************)
M_ALL == <<"A","L","L">>
M_AUTO == <<"A","U","T","O">>
M_JO == <<"J","O">>
M_AE == <<"A","E">>

\* a score without the market term
chunkScore_noMarket(q, mkt, c) ==
  LET t == toLowerCase(c.text)
      dist == levenshtein(q, slice(t, 0, 300))
      topic == toLowerCase(IF c.topic = <<>> THEN T_misc ELSE c.topic)
  IN Max2(0, 60 - dist) + (IF includes(topic, detectTopic(q)) THEN 20 ELSE 0)

\* a score without the topic term
chunkScore_noTopic(q, mkt, c) ==
  LET t == toLowerCase(c.text)
      dist == levenshtein(q, slice(t, 0, 300))
      market == toUpperCase(IF c.market = <<>> THEN M_ALL ELSE c.market)
  IN Max2(0, 60 - dist) + (IF market = mkt THEN 40
                           ELSE IF market = M_ALL \/ mkt = M_AUTO THEN 10
                           ELSE 0)

\* the body of the map callback: the score of one chunk
chunkScore(q, mkt, c) ==
  LET t == toLowerCase(c.text)
      dist == levenshtein(q, slice(t, 0, 300))
      market == toUpperCase(IF c.market = <<>> THEN M_ALL ELSE c.market)
      topic == toLowerCase(IF c.topic = <<>> THEN T_misc ELSE c.topic)
      base == Max2(0, 60 - dist)
      byMarket == IF market = mkt THEN 40
                  ELSE IF market = M_ALL \/ mkt = M_AUTO THEN 10
                  ELSE 0
      byTopic == IF includes(topic, detectTopic(q)) THEN 20 ELSE 0
  IN base + byMarket + byTopic

\* an insertion that puts an entry before the entries of equal score
insertByScore_beforeTies(sorted, e) ==
  LET k == Cardinality({i \in 1..Len(sorted) : sorted[i].score > e.score})
  IN SubSeq(sorted, 1, k) \o <<e>> \o SubSeq(sorted, k + 1, Len(sorted))

\* Array.prototype.sort((a, b) => b.score - a.score): descending and stable
\* (the engines that run this code, with its optional chaining, sort stably).
insertByScore(sorted, e) ==
  LET k == Cardinality({i \in 1..Len(sorted) : sorted[i].score >= e.score})
  IN SubSeq(sorted, 1, k) \o <<e>> \o SubSeq(sorted, k + 1, Len(sorted))

RECURSIVE sortByScore(_)
sortByScore(es) ==
  IF es = <<>> THEN <<>>
  ELSE insertByScore(sortByScore(SubSeq(es, 1, Len(es) - 1)), es[Len(es)])

\* the scored list left in input order
scoreChunks_unsorted(q0, cs, marketPref0) ==
  LET q == toLowerCase(q0)
      mkt == toUpperCase(IF marketPref0 = <<>> THEN M_AUTO ELSE marketPref0)
  IN Eager([i \in 1..Len(cs) |->
              [c |-> cs[i], score |-> chunkScore(q, mkt, cs[i]), ref |-> i]])

scoreChunks(q0, cs, marketPref0) ==
  LET q == toLowerCase(q0)
      mkt == toUpperCase(IF marketPref0 = <<>> THEN M_AUTO ELSE marketPref0)
  IN sortByScore(Eager([i \in 1..Len(cs) |->
                    [c |-> cs[i], score |-> chunkScore(q, mkt, cs[i]), ref |-> i]]))

(***************************************************************************)
(* rag.js: the synthesized answer.  ALL is what getKnowledge() returned.   *)
(* The fixed texts are single atomic elements of the text sequence.        *)
(***************************************************************************)
REFUSAL == "I couldn't find any SOP data yet."

summaryFor(topic) ==
  IF topic = T_company THEN "Company: take data from official docs (AE: CR/TL; JO: CR). Remove 'Sole Proprietorship'. Keep only 'L.L.C'. Don't invent."
  ELSE IF topic = T_tags THEN "Tags: Up to 3 cuisine tags; reflect ~50% of menu. Avoid 'Fast Food' unless true QSR."
  ELSE IF topic = T_writing THEN "Writing: Item names Title Case; descriptions sentence-style; options Every Word Capitalized."
  ELSE IF topic = T_images THEN "Images: item 1200x1200; hero 1125x780."
  ELSE IF topic = T_zones THEN "Zones: discovery/delivery radius depends on city/zone; ask a specific city."
  ELSE "I'll answer using the SOP context (company, tags, writing, images, or zones)."

\* a source that fills in the default market instead of copying the field
sourceOf_defaulted(c) ==
  [title |-> c.title, market |-> IF c.market = <<>> THEN M_ALL ELSE c.market,
   topic |-> c.topic, text |-> c.text]

\* the guard that treats no list as empty
emptyStore_never(ALL) == FALSE

\* !ALL?.length
emptyStore(ALL) == Len(ALL) = 0

sourceOf(c) == [title |-> c.title, market |-> c.market, topic |-> c.topic, text |-> c.text]

buildAnswer(ALL, q0, marketPref0) ==
  IF emptyStore(ALL) THEN [text |-> <<REFUSAL>>, sources |-> <<>>]
  ELSE LET topic == detectTopic(q0)
           top == slice(scoreChunks(q0, ALL, marketPref0), 0, 3)
           bestText == IF Len(top) > 0 THEN top[1].c.text ELSE <<>>
           summary == summaryFor(topic)
           text == trim(<<summary>> \o
                        (IF bestText # <<>> THEN <<"\n", "\n">> \o bestText ELSE <<>>))
       IN [text |-> text, sources |-> Eager([k \in 1..Len(top) |-> sourceOf(top[k].c)])]

(***************************************************************************)
(* The variant of rag.js that answers with up to three rule lines:         *)
(* ranking by edit distance, shared words, topic and rule shape, and the   *)
(* answer deduplicated by a normalized key.                                *)
(***************************************************************************)
RSQUO == "rsquo"    \* the one character U+2019, which is not a word character

\* /(company|cr\b|trade\s*license|tl\b|trn|vat|address|legal)/
rxCompany_lines(s) ==
  \/ \E w \in { <<"c","o","m","p","a","n","y">>, <<"t","r","n">>, <<"v","a","t">>,
                <<"a","d","d","r","e","s","s">>, <<"l","e","g","a","l">> } : includes(s, w)
  \/ matchWordEnd(s, <<"c","r">>)
  \/ matchWordEnd(s, <<"t","l">>)
  \/ matchGap(s, <<"t","r","a","d","e">>, <<"l","i","c","e","n","s","e">>)

\* /(tag|cuisine|qsr|fast\s*food|labels?)/
rxTags_lines(s) ==
  \/ \E w \in { <<"t","a","g">>, <<"c","u","i","s","i","n","e">>, <<"q","s","r">>,
                <<"l","a","b","e","l">> } : includes(s, w)
  \/ matchGap(s, <<"f","a","s","t">>, <<"f","o","o","d">>)

\* /(capitalize|capitalisation|title case|description|uppercase|lowercase|style|writing)/
rxWriting_lines(s) ==
  \E w \in { <<"c","a","p","i","t","a","l","i","z","e">>,
             <<"c","a","p","i","t","a","l","i","s","a","t","i","o","n">>,
             <<"t","i","t","l","e"," ","c","a","s","e">>,
             <<"d","e","s","c","r","i","p","t","i","o","n">>,
             <<"u","p","p","e","r","c","a","s","e">>,
             <<"l","o","w","e","r","c","a","s","e">>,
             <<"s","t","y","l","e">>,
             <<"w","r","i","t","i","n","g">> } : includes(s, w)

\* /(image|hero|1200|1125|780|dimension|size|photo|banner)/
rxImages_lines(s) ==
  \E w \in { <<"i","m","a","g","e">>, <<"h","e","r","o">>, <<"1","2","0","0">>,
             <<"1","1","2","5">>, <<"7","8","0">>,
             <<"d","i","m","e","n","s","i","o","n">>, <<"s","i","z","e">>,
             <<"p","h","o","t","o">>, <<"b","a","n","n","e","r">> } : includes(s, w)

\* /(zone|radius|discovery|delivery|coverage|plan\s*a|area)/
rxZones_lines(s) ==
  \/ \E w \in { <<"z","o","n","e">>, <<"r","a","d","i","u","s">>,
                <<"d","i","s","c","o","v","e","r","y">>,
                <<"d","e","l","i","v","e","r","y">>,
                <<"c","o","v","e","r","a","g","e">>, <<"a","r","e","a">> } : includes(s, w)
  \/ matchGap(s, <<"p","l","a","n">>, <<"a">>)

detectTopic_lines(q) ==
  LET s == toLowerCase(q)
  IN IF rxCompany_lines(s) THEN T_company
     ELSE IF rxTags_lines(s) THEN T_tags
     ELSE IF rxWriting_lines(s) THEN T_writing
     ELSE IF rxImages_lines(s) THEN T_images
     ELSE IF rxZones_lines(s) THEN T_zones
     ELSE T_misc

\* s.match(/[a-z0-9]+/g) || []: the maximal runs of lower-case letters and digits
isTokenCh(c) == c \in Range(LOWER) \cup DIGIT

tokens(s) ==
  LET starts == {i \in 1..Len(s) : isTokenCh(s[i]) /\ (i = 1 \/ ~isTokenCh(s[i - 1]))}
      endOf(i) == MinOf({j \in i..Len(s) : j = Len(s) \/ ~isTokenCh(s[j + 1])})
      nth(n) == CHOOSE i \in starts : Cardinality({k \in starts : k < i}) = n - 1
  IN Eager([n \in 1..Cardinality(starts) |-> SubSeq(s, nth(n), endOf(nth(n)))])

keywordScore(q, t) ==
  LET qWords == tokens(toLowerCase(q))
      tWords == Range(tokens(toLowerCase(t)))
  IN Cardinality({n \in 1..Len(qWords) : qWords[n] \in tWords})

\* /[.!?]$/
rxEndsSentence(t) == t # <<>> /\ t[Len(t)] \in {".", "!", "?"}

\* /must|should|required|don’t|do not|avoid|use|set|add|dimensions?|CR|TL|VAT|tax|tags|1200|1125|780/i
rxRuleWord(t) ==
  \E w \in { <<"m","u","s","t">>, <<"s","h","o","u","l","d">>,
             <<"r","e","q","u","i","r","e","d">>, <<"d","o","n",RSQUO,"t">>,
             <<"d","o"," ","n","o","t">>, <<"a","v","o","i","d">>, <<"u","s","e">>,
             <<"s","e","t">>, <<"a","d","d">>, <<"d","i","m","e","n","s","i","o","n">>,
             <<"c","r">>, <<"t","l">>, <<"v","a","t">>, <<"t","a","x">>, <<"t","a","g","s">>,
             <<"1","2","0","0">>, <<"1","1","2","5">>, <<"7","8","0">> } :
    includes(toLowerCase(t), w)

chunkScore_lines(q, topic, c) ==
  LET t == c.text
      lev == levenshtein(slice(q, 0, 160), slice(t, 0, 160))
  IN Max2(0, 80 - lev)
     + keywordScore(q, t) * 6
     + (IF (IF c.topic = <<>> THEN T_misc ELSE c.topic) = topic THEN 25 ELSE 0)
     + (IF rxEndsSentence(t) THEN 8 ELSE 0)
     + (IF rxRuleWord(t) THEN 10 ELSE 0)

scoreChunks_lines(q0, cs, marketPref0) ==
  LET q == toLowerCase(q0)
      topic == detectTopic_lines(q)
  IN sortByScore(Eager([i \in 1..Len(cs) |->
                    [c |-> cs[i], score |-> chunkScore_lines(q, topic, cs[i]), ref |-> i]]))

\* line.toLowerCase().replace(/\W+/g, " ").trim()
normalizedKey(line) ==
  LET s == toLowerCase(line)
      kept == SelectSeq(Eager([i \in 1..Len(s) |-> i]),
                        LAMBDA i : isWordCh(s[i]) \/ i = 1 \/ isWordCh(s[i - 1]))
  IN trim(Eager([n \in 1..Len(kept) |->
                   IF isWordCh(s[kept[n]]) THEN s[kept[n]] ELSE " "]))

\* a loop that keeps every line, whatever was seen
RECURSIVE chooseLines_keepAll(_, _, _, _)
chooseLines_keepAll(top, i, seen, chosen) ==
  IF i > Len(top) \/ Len(chosen) >= 3 THEN chosen
  ELSE chooseLines_keepAll(top, i + 1, seen, Append(chosen, top[i]))

\* the loop over the top lines: skip a line whose key was seen, stop at three
RECURSIVE chooseLines(_, _, _, _)
chooseLines(top, i, seen, chosen) ==
  IF i > Len(top) \/ Len(chosen) >= 3 THEN chosen
  ELSE IF normalizedKey(top[i]) \in seen THEN chooseLines(top, i + 1, seen, chosen)
  ELSE chooseLines(top, i + 1, seen \cup {normalizedKey(top[i])}, Append(chosen, top[i]))

\* chosen.map((s) => `- ${s}`).join("\n")
RECURSIVE renderLines(_)
renderLines(ls) ==
  IF ls = <<>> THEN <<>>
  ELSE <<"-", " ">> \o Head(ls) \o
       (IF Len(ls) > 1 THEN <<"\n">> \o renderLines(Tail(ls)) ELSE <<>>)

buildAnswer_lines(ALL, q0, marketPref0) ==
  IF emptyStore(ALL) THEN [text |-> <<REFUSAL>>, sources |-> <<>>]
  ELSE LET r == scoreChunks_lines(q0, ALL, marketPref0)
           r12 == slice(r, 0, 12)
           top == Eager([k \in 1..Len(r12) |-> r12[k].c.text])
           chosen == chooseLines(top, 1, {}, <<>>)
           r3 == slice(r, 0, 3)
       IN [text |-> renderLines(chosen),
           sources |-> Eager([k \in 1..Len(r3) |-> sourceOf(r3[k].c)])]

(***************************************************************************)
(* Inputs of the ranking functions.                                        *)
(***************************************************************************)
Rep(ch, n) == Eager([k \in 1..n |-> ch])

Chunk(title, market, topic, text) ==
  [title |-> title, market |-> market, topic |-> topic, text |-> text]

\* chunks that differ in one field only, and one that differs in all
C_tagsJO == Chunk("tags_sop.json", M_JO, T_tags, <<"T","a","g"," ","i","t",".">>)
C_tagsALL == Chunk("tags_sop.json", M_ALL, T_tags, <<"T","a","g"," ","i","t",".">>)
C_miscJO == Chunk("tags_sop.json", M_JO, T_misc, <<"T","a","g"," ","i","t",".">>)
C_vat == Chunk("company_sop.json", M_ALL, T_company, <<"V","a","t"," ","5">>)
\* no market and no topic; a text farther than 60 edits from every question
C_bare == Chunk("notes.json", <<>>, <<>>, Rep("z", 64))
\* a text that ends in white space
C_size == Chunk("images_sop.json", M_AE, T_images, <<"S","i","z","e"," ","7","8","0"," ">>)

\* the text of C_tagsJO up to case and punctuation: the same normalized key
C_tagsKey == Chunk("tags_guideline.json", M_ALL, T_tags, <<"t","a","g",","," ","I","T","!">>)
\* a short text far from every question
C_low == Chunk("notes.json", M_ALL, T_zones, <<"q","q","q","q","q","q","q","q","q">>)

POOL == { C_tagsJO, C_tagsALL, C_miscJO, C_vat }

\* lists longer than MaxChunks, and lists with the chunks outside the pool
LONG_LISTS ==
  { <<C_vat, C_miscJO, C_tagsALL, C_tagsJO>>,
    <<C_size, C_vat, C_tagsALL, C_bare, C_tagsJO>>,
    <<C_bare>>, <<C_size>>, <<C_bare, C_size>>,
    <<C_tagsKey, C_tagsJO, C_vat, C_tagsKey, C_low>>,
    <<C_low>> \o Rep(C_tagsKey, 4) \o Rep(C_vat, 4) \o Rep(C_tagsJO, 4),
    Rep(C_tagsJO, 6) \o <<C_low, C_size>> \o Rep(C_tagsKey, 6) }

QUESTIONS == { <<"T","a","g">>, <<"v","a","t">>, <<"z","z">> }

MARKETS == { M_AUTO, M_JO, <<"j","o">>, <<>> }

Lists == UNION { [1..n -> POOL] : n \in 0..MaxChunks } \cup LONG_LISTS

\* cs with the chunks at positions i and j exchanged
swap(cs, i, j) ==
  Eager([k \in 1..Len(cs) |-> IF k = i THEN cs[j] ELSE IF k = j THEN cs[i] ELSE cs[k]])

RankInit ==
  /\ question \in QUESTIONS
  /\ marketPref \in MARKETS
  /\ chunks \in Lists
  /\ pcR = "input"
  /\ ranked = NONE
  /\ answer = NONE
  /\ permuted = NONE
  /\ answerPerm = NONE
  /\ answerLines = NONE
  /\ generated = NONE
  /\ ingest = NONE
  /\ env = [key |-> FALSE, mode |-> "off"]
  /\ disk = <<>>
  /\ _cache = [loaded |-> FALSE, list |-> <<>>]
  /\ _aiCalls = 0
  /\ genCalls = 0
  /\ _aiCache = <<>>
  /\ now = 0
  /\ reqs = <<>>

ApplyScoreChunks ==
  /\ pcR = "input"
  /\ ranked' = scoreChunks(question, chunks, marketPref)
  /\ pcR' = "scoreChunks"
  /\ UNCHANGED <<ingest, question, marketPref, chunks, answer, permuted, answerPerm, answerLines,
                 generated, srvVars>>

ApplyBuildAnswer ==
  /\ pcR = "input"
  /\ answer' = buildAnswer(chunks, question, marketPref)
  /\ pcR' = "buildAnswer"
  /\ UNCHANGED <<ingest, question, marketPref, chunks, ranked, permuted, answerPerm, answerLines,
                 generated, srvVars>>

\* The same chunks loaded in another order, and buildAnswer on both lists.
\* Two positions are exchanged; every list is drawn, so every permutation
\* is reached through a chain of such pairs.
ApplyBuildAnswerPermuted ==
  /\ pcR = "input"
  /\ \E i \in 1..Len(chunks) : \E j \in i..Len(chunks) :
       /\ permuted' = swap(chunks, i, j)
       /\ answerPerm' = buildAnswer(swap(chunks, i, j), question, marketPref)
  /\ answer' = buildAnswer(chunks, question, marketPref)
  /\ pcR' = "permuted"
  /\ UNCHANGED <<ingest, question, marketPref, chunks, ranked, answerLines,
                 generated, srvVars>>

ApplyBuildAnswerLines ==
  /\ pcR = "input"
  /\ answerLines' = buildAnswer_lines(chunks, question, marketPref)
  /\ pcR' = "buildAnswer_lines"
  /\ UNCHANGED <<ingest, question, marketPref, chunks, ranked, answer, permuted, answerPerm,
                 generated, srvVars>>

RankNext ==
  \/ ApplyScoreChunks
  \/ ApplyBuildAnswer
  \/ ApplyBuildAnswerPermuted
  \/ ApplyBuildAnswerLines

SpecRank == RankInit /\ [][RankNext]_vars

(***************************************************************************)
(* Properties of the ranker and of the synthesized answer (SpecRank).      *)
(***************************************************************************)
TOPICS == { T_company, T_tags, T_writing, T_images, T_zones, T_misc }

\* the place in the ranked list of the chunk that was at position i of the input
posOf(r, i) == CHOOSE k \in 1..Len(r) : r[k].ref = i

\* C3: with an empty knowledge store buildAnswer returns the one fixed refusal
\* text and no sources, whatever the question and the market preference.
C3_EmptyStoreRefusal ==
  (pcR = "buildAnswer" /\ chunks = <<>>)
    => (answer.text = <<REFUSAL>> /\ answer.sources = <<>>)

C3_Witness ==
  pcR = "buildAnswer" /\ chunks = <<>> /\ question = <<"T","a","g">> /\ marketPref = M_JO

\* C5: with market preference JO, of two chunks that differ only in market,
\* JO against ALL, the JO chunk has the strictly higher score and stands
\* before the ALL chunk in the ranked list, whatever their input order.
C5_MarketMatchRanksHigher ==
  (pcR = "scoreChunks" /\ marketPref = M_JO) =>
    \A i, j \in 1..Len(chunks) :
      (chunks[i].market = M_JO /\ chunks[j] = [chunks[i] EXCEPT !.market = M_ALL])
        => /\ ranked[posOf(ranked, i)].score > ranked[posOf(ranked, j)].score
           /\ posOf(ranked, i) < posOf(ranked, j)

\* the ALL chunk comes first in the input, its JO twin later
C5_Witness ==
  /\ pcR = "scoreChunks" /\ marketPref = M_JO
  /\ \E i, j \in 1..Len(chunks) :
       i < j /\ chunks[i] = C_tagsALL /\ chunks[j] = C_tagsJO
       /\ posOf(ranked, j) < posOf(ranked, i)

\* C6: of two chunks with the same market and text, one labelled with the
\* topic detected for the question and the other with another topic label,
\* the matching chunk has the strictly higher score and is ranked first.
C6_TopicMatchRanksHigher ==
  pcR = "scoreChunks" =>
    \A i, j \in 1..Len(chunks) :
      (/\ chunks[i].market = chunks[j].market
       /\ chunks[i].text = chunks[j].text
       /\ chunks[i].topic = detectTopic(question)
       /\ chunks[j].topic \in TOPICS \ {detectTopic(question)})
        => /\ ranked[posOf(ranked, i)].score > ranked[posOf(ranked, j)].score
           /\ posOf(ranked, i) < posOf(ranked, j)

\* the chunk of another topic comes first in the input, the matching one later
C6_Witness ==
  /\ pcR = "scoreChunks" /\ detectTopic(question) = T_tags
  /\ \E i, j \in 1..Len(chunks) :
       i < j /\ chunks[i] = C_miscJO /\ chunks[j] = C_tagsJO
       /\ posOf(ranked, j) < posOf(ranked, i)

\* C7: the ranked list is a permutation of the input (one entry per input
\* chunk), in non-increasing order of score, and entries of equal score keep
\* their input order.
C7_RankedIsStableSortedPermutation ==
  pcR = "scoreChunks" =>
    /\ Len(ranked) = Len(chunks)
    /\ {ranked[k].ref : k \in 1..Len(ranked)} = 1..Len(chunks)
    /\ \A k \in 1..Len(ranked) : ranked[k].c = chunks[ranked[k].ref]
    /\ \A k, l \in 1..Len(ranked) :
         k < l => /\ ranked[k].score >= ranked[l].score
                  /\ (ranked[k].score = ranked[l].score => ranked[k].ref < ranked[l].ref)

\* a list that the sort had to reorder and that holds a tie
C7_Witness ==
  /\ pcR = "scoreChunks"
  /\ \E k \in 1..Len(ranked) : ranked[k].ref # k
  /\ \E k, l \in 1..Len(ranked) :
       k < l /\ ranked[k].score = ranked[l].score /\ ranked[k].c # ranked[l].c

\* every two chunks of equal score are the same in title, market, topic and text
tiesOnlyBetweenEqualChunks ==
  LET r == scoreChunks(question, chunks, marketPref)
  IN \A k, l \in 1..Len(r) : r[k].score = r[l].score => r[k].c = r[l].c

\* C8 as stated: for two lists that are permutations of the same chunks
\* buildAnswer returns the same sources and the same text.
C8_OrderIndependent ==
  pcR = "permuted" => answerPerm = answer

\* C8 amended: for two lists that are permutations of the same chunks
\* buildAnswer returns the same sources and the same text, provided every
\* two chunks of equal score are equal in title, market, topic and text.
C8_OrderIndependentWithoutTies ==
  (pcR = "permuted" /\ tiesOnlyBetweenEqualChunks) => answerPerm = answer

\* the load order changed and the best chunk was not first in either list
C8_Witness ==
  /\ pcR = "permuted" /\ tiesOnlyBetweenEqualChunks
  /\ Len(chunks) >= 3 /\ permuted # chunks
  /\ answer.sources[1] # sourceOf(chunks[1])
  /\ answer.sources[1] # sourceOf(permuted[1])

\* C9: for a non-empty list of n chunks buildAnswer returns min(3, n)
\* sources: the first min(3, n) entries of the ranked list, in rank order,
\* each with the title, market, topic and text of its chunk.
C9_SourcesAreTopThree ==
  (pcR = "buildAnswer" /\ Len(chunks) > 0) =>
    LET r == scoreChunks(question, chunks, marketPref)
        n == Min2(3, Len(chunks))
    IN /\ Len(answer.sources) = n
       /\ \A k \in 1..n :
            /\ answer.sources[k].title = chunks[r[k].ref].title
            /\ answer.sources[k].market = chunks[r[k].ref].market
            /\ answer.sources[k].topic = chunks[r[k].ref].topic
            /\ answer.sources[k].text = chunks[r[k].ref].text

\* five chunks, three sources, and the first source was not first in the input
C9_Witness ==
  /\ pcR = "buildAnswer" /\ Len(chunks) = 5 /\ Len(answer.sources) = 3
  /\ answer.sources[1] # sourceOf(chunks[1])

\* C10: the variant that answers with rule lines takes the texts of the top
\* 12 ranked chunks and keeps, in rank order, the first 3 whose normalized
\* keys differ from the keys of all lines before them; the answer is these
\* lines, and no two of them share a normalized key.
C10_FirstThreeDistinctOfTopTwelve ==
  (pcR = "buildAnswer_lines" /\ Len(chunks) > 0) =>
    LET r == scoreChunks_lines(question, chunks, marketPref)
        key(k) == normalizedKey(r[k].c.text)
        firsts == {k \in 1..Min2(12, Len(r)) : \A j \in 1..(k - 1) : key(j) # key(k)}
        keptAt == {k \in firsts : Cardinality({j \in firsts : j < k}) < 3}
        nth(n) == CHOOSE k \in keptAt : Cardinality({j \in keptAt : j < k}) = n - 1
        kept == Eager([n \in 1..Cardinality(keptAt) |-> r[nth(n)].c.text])
    IN /\ answerLines.text = renderLines(kept)
       /\ Len(kept) <= 3
       /\ \A a, b \in 1..Len(kept) :
            a # b => normalizedKey(kept[a]) # normalizedKey(kept[b])

\* lines of the same key were skipped between the first and the second kept line
C10_Witness ==
  /\ pcR = "buildAnswer_lines"
  /\ chunks = <<C_tagsKey, C_tagsJO, C_vat, C_tagsKey, C_low>>
  /\ question = <<"T","a","g">>
  /\ answerLines.text = renderLines(<<C_tagsKey.text, C_vat.text, C_low.text>>)

(***************************************************************************)
(* knowledgeLoader.js: the JSON files of the candidate directories turned  *)
(* into policy lines.  A parsed JSON value is a record [t, v]: a string    *)
(* (v its characters), an array (v its elements), an object (v its         *)
(* members [k, v] in key order) or a value that holds no text (null,       *)
(* numbers, booleans).                                                     *)
(***************************************************************************)
JStr(s) == [t |-> "str", v |-> s]
JArr(a) == [t |-> "arr", v |-> a]
JObj(a) == [t |-> "obj", v |-> a]
JNull == [t |-> "null", v |-> <<>>]

\* the largest element of a set of integers
MaxOf(S) == 0 - MinOf({0 - x : x \in S})

\* \s, \d and \S of a regular expression
inClass(c, class) ==
  IF class = "s" THEN isSpaceCh(c)
  ELSE IF class = "d" THEN c \in DIGIT
  ELSE ~isSpaceCh(c)

\* where a greedy run of characters of a class, started at offset i, ends
spanEnd(s, i, class) ==
  MinOf({e \in i..Len(s) : e = Len(s) \/ ~inClass(s[e + 1], class)})

\* \b at offset i
wordBoundary(s, i) ==
  (i >= 1 /\ isWordCh(s[i])) # (i < Len(s) /\ isWordCh(s[i + 1]))

\* String.prototype.split("\n")
RECURSIVE splitNewline(_)
splitNewline(s) ==
  LET ns == {i \in 1..Len(s) : s[i] = "\n"}
  IN IF ns = {} THEN <<s>>
     ELSE <<SubSeq(s, 1, MinOf(ns) - 1)>> \o splitNewline(SubSeq(s, MinOf(ns) + 1, Len(s)))

\* String.prototype.split(/\r?\n/)
splitLines(s) ==
  LET parts == splitNewline(s)
  IN Eager([i \in 1..Len(parts) |->
        IF i < Len(parts) /\ parts[i] # <<>> /\ parts[i][Len(parts[i])] = "\r"
        THEN SubSeq(parts[i], 1, Len(parts[i]) - 1) ELSE parts[i]])

\* .map(trim) and the lines that are left non-empty
trimmedLines(ls) ==
  SelectSeq(Eager([i \in 1..Len(ls) |-> trim(ls[i])]), LAMBDA l : l # <<>>)

RECURSIVE explodeToLines(_)
RECURSIVE walkAll(_, _)
walkAll(vs, i) ==
  IF i > Len(vs) THEN <<>> ELSE explodeToLines(vs[i]) \o walkAll(vs, i + 1)

explodeToLines(x) ==
  IF x.t = "str" THEN trimmedLines(splitLines(x.v))
  ELSE IF x.t = "arr" THEN walkAll(x.v, 1)
  ELSE IF x.t = "obj" THEN walkAll(Eager([i \in 1..Len(x.v) |-> x.v[i].v]), 1)
  ELSE <<>>

BULLETS == {"*", "bull", "-"}

\* s.replace(/^\s*[*(bullet)-]\s*/, "").trim()
stripBullet(s) ==
  LET a == trimStart(s)
  IN IF a # <<>> /\ Head(a) \in BULLETS THEN trim(Tail(a)) ELSE trim(s)

\* /\bslide\s*\d+\b/i or /\bpage\s*\d+\b/i at offset i: the offset where the
\* match ends, or -1.  ls is s in lower case.
matchNumbered(s, ls, w, i) ==
  IF ~(wordBoundary(s, i) /\ matchAt(ls, w, i)) THEN -1
  ELSE LET k == spanEnd(s, i + Len(w), "s")
           e == spanEnd(s, k, "d")
       IN IF e > k /\ wordBoundary(s, e) THEN e ELSE -1

\* the extensions of (pptx?|pdf|docx?) in the order the expression tries them
EXTS == << <<"p","p","t","x">>, <<"p","p","t">>, <<"p","d","f">>,
           <<"d","o","c","x">>, <<"d","o","c">> >>

\* "." at offset p followed by an extension and \b: the end offset, or -1
extEnd(s, ls, p) ==
  LET ks == {k \in 1..Len(EXTS) :
               matchAt(ls, EXTS[k], p + 1) /\ wordBoundary(s, p + 1 + Len(EXTS[k]))}
  IN IF ks = {} THEN -1 ELSE p + 1 + Len(EXTS[MinOf(ks)])

\* /\b\S+\.(pptx?|pdf|docx?)\b/i at offset i: the end offset, or -1
matchFileRef(s, ls, i) ==
  IF ~wordBoundary(s, i) THEN -1
  ELSE LET r == spanEnd(s, i, "S")
           ps == {p \in (i + 1)..(r - 1) : s[p + 1] = "." /\ extEnd(s, ls, p) # -1}
       IN IF ps = {} THEN -1 ELSE extEnd(s, ls, MaxOf(ps))

metaEnd(s, ls, i) ==
  IF matchNumbered(s, ls, <<"s","l","i","d","e">>, i) # -1
    THEN matchNumbered(s, ls, <<"s","l","i","d","e">>, i)
  ELSE IF matchNumbered(s, ls, <<"p","a","g","e">>, i) # -1
    THEN matchNumbered(s, ls, <<"p","a","g","e">>, i)
  ELSE matchFileRef(s, ls, i)

RECURSIVE stripMetaFrom(_, _, _)
stripMetaFrom(s, ls, from) ==
  The({ IF starts = {} THEN SubSeq(s, from + 1, Len(s))
        ELSE SubSeq(s, from + 1, MinOf(starts))
               \o stripMetaFrom(s, ls, metaEnd(s, ls, MinOf(starts))) :
        starts \in { {i \in from..(Len(s) - 1) : metaEnd(s, ls, i) # -1} } })

\* s.replace(/\bslide\s*\d+\b|\bpage\s*\d+\b|\b\S+\.(pptx?|pdf|docx?)\b/gi, "").trim()
stripMeta(s) == trim(stripMetaFrom(s, toLowerCase(s), 0))

isAlnumCh(c) == c \in Range(UPPER) \cup Range(LOWER) \cup DIGIT

\* where the words of t.split(/\s+/) start
wordStarts(t) == {i \in 1..Len(t) : ~isSpaceCh(t[i]) /\ (i = 1 \/ isSpaceCh(t[i - 1]))}

\* /^[A-Z][A-Za-z0-9]+(?:\s+[A-Z][A-Za-z0-9]+)*$/
looksTitleCase(t) ==
  /\ \A i \in 1..Len(t) : isSpaceCh(t[i]) \/ isAlnumCh(t[i])
  /\ \A i \in wordStarts(t) :
       t[i] \in Range(UPPER) /\ i < Len(t) /\ ~isSpaceCh(t[i + 1])

isHeading(s) ==
  LET t == trim(s)
  IN \/ t = <<>>
     \/ Len(t) < 35
     \/ Cardinality(wordStarts(t)) <= 4
     \/ looksTitleCase(t)
     \/ (Len(t) = 1 /\ t[1] \in BULLETS)

RULE_WORDS ==
  { <<"m","u","s","t">>, <<"s","h","o","u","l","d">>, <<"r","e","q","u","i","r","e","d">>,
    <<"d","o","n",RSQUO,"t">>, <<"d","o"," ","n","o","t">>, <<"a","v","o","i","d">>,
    <<"u","s","e">>, <<"s","e","t">>, <<"a","d","d">>, <<"c","h","o","o","s","e">>,
    <<"i","s">>, <<"a","r","e">>, <<"d","i","m","e","n","s","i","o","n">>,
    <<"s","i","z","e">>, <<"1","2","0","0">>, <<"1","1","2","5">>, <<"7","8","0">>,
    <<"c","r">>, <<"t","l">>, <<"v","a","t">>, <<"t","a","x">>, <<"t","a","g","s">> }

isRuleLike(s) ==
  LET t == trim(s)
  IN /\ Len(t) >= 40
     /\ t[Len(t)] \in {".", "!", "?"}
     /\ \E w \in RULE_WORDS : includes(toLowerCase(t), w)

normalizeFileToChunks(json, fallbackTopic, filename) ==
  The({ LET rules == SelectSeq(lines, isRuleLike)
            texts == IF Len(rules) > 0 THEN rules ELSE lines
        IN Eager([i \in 1..Len(texts) |-> Chunk(filename, M_ALL, fallbackTopic, texts[i])]) :
        lines \in { SelectSeq(Eager([i \in 1..Len(raw) |-> stripMeta(stripBullet(raw[i]))]),
                              LAMBDA s : ~isHeading(s)) :
                    raw \in { explodeToLines(json) } } })

guessTopicFromName(name) ==
  LET n == toLowerCase(name)
  IN IF includes(n, <<"c","o","m","p","a","n","y">>) THEN T_company
     ELSE IF \/ includes(n, <<"t","a","g","s","_","g","u","i","d","e","l","i","n","e">>)
             \/ includes(n, <<"t","a","g","s","_","s","o","p">>)
             \/ includes(n, <<"t","a","g","s">>) THEN T_tags
     ELSE IF includes(n, <<"w","r","i","t","i","n","g">>) THEN T_writing
     ELSE IF includes(n, <<"i","m","a","g","e">>) THEN T_images
     ELSE IF includes(n, <<"z","o","n","e">>) THEN T_zones
     ELSE T_misc

\* f.toLowerCase().endsWith(".json")
isJsonName(f) ==
  Len(f) >= 5 /\ SubSeq(toLowerCase(f), Len(f) - 4, Len(f)) = <<".","j","s","o","n">>

\* a file of a directory: its name and what JSON.parse makes of its content
File(name, parses, json) == [name |-> name, parses |-> parses, json |-> json]

\* a candidate directory: its path, whether readdirSync succeeds, its files
Dir(path, readable, files) == [path |-> path, readable |-> readable, files |-> files]

\* the .json files of the candidate directories, in scan order, with the path
RECURSIVE listFiles(_, _)
listFiles(dirs, d) ==
  IF d > Len(dirs) THEN <<>>
  ELSE (IF dirs[d].readable
        THEN LET fs == SelectSeq(dirs[d].files, LAMBDA f : isJsonName(f.name))
             IN Eager([i \in 1..Len(fs) |-> [path |-> dirs[d].path, file |-> fs[i]]])
        ELSE <<>>) \o listFiles(dirs, d + 1)

\* safeReadJSON(full) and the test !json
readsAsNothing(f) ==
  \/ ~f.parses
  \/ f.json.t = "null"
  \/ (f.json.t = "str" /\ f.json.v = <<>>)

RECURSIVE loadFiles(_, _, _)
loadFiles(fs, i, seenFiles) ==
  IF i > Len(fs) THEN <<>>
  ELSE LET full == <<fs[i].path, fs[i].file.name>>
       IN IF full \in seenFiles THEN loadFiles(fs, i + 1, seenFiles)
          ELSE (IF readsAsNothing(fs[i].file) THEN <<>>
                ELSE normalizeFileToChunks(fs[i].file.json,
                                           guessTopicFromName(fs[i].file.name),
                                           fs[i].file.name))
               \o loadFiles(fs, i + 1, seenFiles \cup {full})

\* a wrong getKnowledge: an empty list does not count as loaded
getKnowledge_reloadEmpty(cache, dirs) ==
  IF cache.loaded /\ cache.list # <<>> THEN cache
  ELSE [loaded |-> TRUE, list |-> loadFiles(listFiles(dirs, 1), 1, {})]

\* getKnowledge(): cache is the module variable _cache, [loaded, list]
getKnowledge(cache, dirs) ==
  IF cache.loaded THEN cache
  ELSE [loaded |-> TRUE, list |-> loadFiles(listFiles(dirs, 1), 1, {})]

(***************************************************************************)
(* getKnowledge as a function of the files (SpecLoad): one collection file *)
(* in the knowledge directory, a list of chunk records as ingest writes    *)
(* them or a list of strings.                                              *)
(***************************************************************************)
\* a record of ingest: { title, topic, market, text }
Record(title, topic, market, text) ==
  JObj(<< [k |-> "title", v |-> JStr(title)], [k |-> "topic", v |-> JStr(topic)],
          [k |-> "market", v |-> JStr(market)], [k |-> "text", v |-> JStr(text)] >>)

S_rule == <<"U","s","e"," ","u","p"," ","t","o"," ","t","h","r","e","e"," ","c","u","i","s","i","n","e"," ","t","a","g","s"," ","f","o","r"," ","e","v","e","r","y"," ","r","e","s","t","a","u","r","a","n","t",".">>
S_short == <<"U","s","e"," ","t","a","g","s",".">>
S_lines == <<"L","o","g","o"," ","s","i","z","e","\n","T","h","e"," ","l","o","g","o"," ","m","u","s","t"," ","b","e"," ","7","8","0"," ","p","i","x","e","l","s"," ","w","i","d","e"," ","o","n"," ","e","v","e","r","y"," ","p","a","g","e",".">>

RECORDS ==
  << Record(<<"T","a","g","s">>, T_tags, M_JO, S_rule),
     Record(<<"V","A","T">>, T_company, M_ALL, S_short),
     Record(<<"L","o","g","o">>, T_images, M_AE, S_lines) >>

STRINGS == << JStr(S_rule), JStr(S_short), JStr(S_lines) >>

\* the lists of at most MaxRecords elements of a pool
ListsOf(pool) == UNION { [1..n -> Range(pool)] : n \in 0..MaxRecords }

FILE_NAMES == { <<"t","a","g","s","_","s","o","p",".","j","s","o","n">>,
                <<"n","o","t","e","s",".","j","s","o","n">> }

\* the directories with one collection file in the knowledge directory
LoadDisk(f) ==
  << Dir("app", TRUE, <<>>), Dir("app/knowledge", TRUE, <<f>>),
     Dir("app", TRUE, <<>>), Dir("app/knowledge", TRUE, <<f>>) >>

LoadInit ==
  /\ \E name \in FILE_NAMES : \E list \in ListsOf(RECORDS) \cup ListsOf(STRINGS) :
       disk = LoadDisk(File(name, TRUE, JArr(list)))
  /\ _cache = [loaded |-> FALSE, list |-> <<>>]
  /\ env = [key |-> FALSE, mode |-> "off"]
  /\ _aiCalls = 0
  /\ genCalls = 0
  /\ _aiCache = <<>>
  /\ now = 0
  /\ reqs = <<>>
  /\ question = <<>>
  /\ marketPref = <<>>
  /\ chunks = <<>>
  /\ pcR = "load"
  /\ ranked = NONE
  /\ answer = NONE
  /\ permuted = NONE
  /\ answerPerm = NONE
  /\ answerLines = NONE
  /\ generated = NONE
  /\ ingest = NONE

\* the first call of getKnowledge()
CallGetKnowledge ==
  /\ ~_cache.loaded
  /\ _cache' = getKnowledge(_cache, disk)
  /\ UNCHANGED <<ingest, env, disk, _aiCalls, _aiCache, now, reqs, genCalls, rankVars>>

LoadNext == CallGetKnowledge

SpecLoad == LoadInit /\ [][LoadNext]_vars

(***************************************************************************)
(* rag.js: the grounded prompt.  Characters outside ASCII are the          *)
(* elements "bull", "ndash", "hellip" and "backtick", one per code unit.    *)
(***************************************************************************)
\* the character of a code fence
BACKTICK == "backtick"

\* the first code fence at or after offset from, or -1
fenceAt(s, from) ==
  LET at == {i \in from..Len(s) : matchAt(s, <<BACKTICK,BACKTICK,BACKTICK>>, i)}
  IN IF at = {} THEN -1 ELSE MinOf(at)

\* s.replace(/(fence)[\s\S]*?(fence)/g, "")
RECURSIVE removeFences(_, _)
removeFences(s, from) ==
  LET a == fenceAt(s, from)
      b == IF a = -1 THEN -1 ELSE fenceAt(s, a + 3)
  IN IF b = -1 THEN SubSeq(s, from + 1, Len(s))
     ELSE SubSeq(s, from + 1, a) \o removeFences(s, b + 3)

\* JSON.parse of the texts the model draws: strings without escapes,
\* arrays, objects, integers and the three literals.  A value parsed at
\* offset i is [ok, leafs, next]: whether it parsed, its string leaves
\* trimmed and non-empty in walk order, and the offset after it.
PARSE_ERROR == [ok |-> FALSE, leafs |-> <<>>, next |-> 0]

parseString(s, i) ==
  LET qs == {j \in (i + 2)..Len(s) : s[j] = "\""}
  IN IF qs = {} THEN [ok |-> FALSE, str |-> <<>>, next |-> 0]
     ELSE LET body == SubSeq(s, i + 2, MinOf(qs) - 1)
          IN [ok |-> \A k \in 1..Len(body) : body[k] \notin {"\\", "\n", "\t", "\r"},
              str |-> body, next |-> MinOf(qs)]

parseLiteral(s, i) ==
  LET ws == { <<"t","r","u","e">>, <<"f","a","l","s","e">>, <<"n","u","l","l">> }
  IN IF \E w \in ws : matchAt(s, w, i)
     THEN [ok |-> TRUE, leafs |-> <<>>,
           next |-> i + Len(CHOOSE w \in ws : matchAt(s, w, i))]
     ELSE PARSE_ERROR

parseNumber(s, i) ==
  LET d == IF i < Len(s) /\ s[i + 1] = "-" THEN i + 1 ELSE i
      e == spanEnd(s, d, "d")
  IN IF e = d \/ (e > d + 1 /\ s[d + 1] = "0") THEN PARSE_ERROR
     ELSE [ok |-> TRUE, leafs |-> <<>>, next |-> e]

RECURSIVE parseValue(_, _)
RECURSIVE parseMembers(_, _, _, _)
\* the elements of an array or the members of an object, from offset i
\* (after the opening bracket or after a comma)
parseMembers(s, i, isObject, leafs) ==
  LET k == spanEnd(s, i, "s")
      key == IF isObject /\ k < Len(s) /\ s[k + 1] = "\"" THEN parseString(s, k)
             ELSE [ok |-> ~isObject, str |-> <<>>, next |-> k]
      c == IF key.ok THEN spanEnd(s, key.next, "s") ELSE 0
      colon == ~isObject \/ (c < Len(s) /\ s[c + 1] = ":")
  IN The({ LET n == IF val.ok THEN spanEnd(s, val.next, "s") ELSE 0
           IN IF ~val.ok \/ n >= Len(s) THEN PARSE_ERROR
              ELSE IF s[n + 1] = ","
                THEN parseMembers(s, n + 1, isObject, leafs \o val.leafs)
              ELSE IF s[n + 1] = (IF isObject THEN "}" ELSE "]")
                THEN [ok |-> TRUE, leafs |-> leafs \o val.leafs, next |-> n + 1]
              ELSE PARSE_ERROR :
           val \in { IF key.ok /\ colon
                     THEN parseValue(s, IF isObject THEN c + 1 ELSE k)
                     ELSE PARSE_ERROR } })

parseValue(s, i) ==
  LET k == spanEnd(s, i, "s")
  IN IF k >= Len(s) THEN PARSE_ERROR
     ELSE IF s[k + 1] = "\"" THEN
       LET str == parseString(s, k)
       IN IF str.ok
          THEN [ok |-> TRUE, next |-> str.next,
                leafs |-> IF trim(str.str) = <<>> THEN <<>> ELSE <<trim(str.str)>>]
          ELSE PARSE_ERROR
     ELSE IF s[k + 1] \in {"[", "{"} THEN
       LET open == spanEnd(s, k + 1, "s")
           close == IF s[k + 1] = "{" THEN "}" ELSE "]"
       IN IF open < Len(s) /\ s[open + 1] = close
          THEN [ok |-> TRUE, leafs |-> <<>>, next |-> open + 1]
          ELSE parseMembers(s, k + 1, s[k + 1] = "{", <<>>)
     ELSE IF s[k + 1] \in DIGIT \cup {"-"} THEN parseNumber(s, k)
     ELSE parseLiteral(s, k)

\* leafs.join(" (bullet) ")
RECURSIVE joinWith(_, _)
joinWith(ls, sep) ==
  IF ls = <<>> THEN <<>>
  ELSE IF Len(ls) = 1 THEN ls[1]
  ELSE ls[1] \o sep \o joinWith(Tail(ls), sep)

\* the text with the string leaves of its JSON in place of the JSON
flattenJson(t) ==
  LET s == trim(t)
      bracketed == /\ Len(s) >= 2
                   /\ \/ (s[1] = "{" /\ s[Len(s)] = "}")
                      \/ (s[1] = "[" /\ s[Len(s)] = "]")
  IN The({ IF parsed.ok /\ parsed.next = Len(s)
           THEN joinWith(parsed.leafs, <<" ", "bull", " ">>)
           ELSE t :
           parsed \in { IF bracketed THEN parseValue(s, 0) ELSE PARSE_ERROR } })

\* t.replace(/\s+\n/g, "\n"): white space is dropped where a newline
\* follows it in the same run of white space
beforeNewline(t) ==
  LET drop(k) == /\ isSpaceCh(t[k])
                 /\ \E n \in (k + 1)..Len(t) :
                      t[n] = "\n" /\ \A j \in k..n : isSpaceCh(t[j])
  IN SelectSeq(Eager([k \in 1..Len(t) |-> IF drop(k) THEN "" ELSE t[k]]),
               LAMBDA c : c # "")

\* t.replace(/[ \t]+/g, " ")
blanksToOne(t) ==
  LET blank(k) == t[k] \in {" ", "\t"}
  IN SelectSeq(Eager([k \in 1..Len(t) |->
                        IF blank(k) THEN (IF k > 1 /\ blank(k - 1) THEN "" ELSE " ")
                        ELSE t[k]]),
               LAMBDA c : c # "")

normalizeContextText(t0) ==
  The({ IF Len(t) > 1200 THEN slice(t, 0, 1200) \o <<" ", "hellip">> ELSE t :
        t \in { trim(blanksToOne(beforeNewline(flattenJson(removeFences(t0, 0))))) } })

P_HEAD ==
  <<"\n","Y","o","u"," ","a","r","e"," ","Q","C"," ","B","u","d","d","y","."," ","A","n","s","w",
    "e","r"," ","O","N","L","Y"," ","u","s","i","n","g"," ","t","h","e"," ","S","O","P"," ","f","a",
    "c","t","s"," ","b","e","l","o","w",".","\n","O","u","t","p","u","t"," ","r","u","l","e","s",
    ":","\n","-"," ","1","ndash","3"," ","S","H","O","R","T"," ","b","u","l","l","e","t"," ","p",
    "o","i","n","t","s"," ","(","m","a","x",")",".","\n","-"," ","D","O"," ","N","O","T"," ","p",
    "r","i","n","t"," ","l","i","s","t","s",","," ","s","e","c","t","i","o","n","s"," ","o","r"," ",
    "J","S","O","N",".","\n","-"," ","I","f"," ","n","o","t"," ","c","o","v","e","r","e","d",",",
    " ","r","e","p","l","y"," ","e","x","a","c","t","l","y",":"," ","\"","I"," ","d","o","n","'",
    "t"," ","h","a","v","e"," ","t","h","i","s"," ","i","n"," ","t","h","e"," ","S","O","P",".",
    "\"","\n","\n","M","a","r","k","e","t",":"," ">>

\* one line of the SOP facts; i is the index of the source, from 0
sourceBlock(s, i) ==
  <<"bull", " ">>
    \o (IF s.title # <<>> THEN s.title ELSE <<"S","o","u","r","c","e"," ">> \o <<DIGITS[i + 2]>>)
    \o <<" ", "[">> \o (IF s.market # <<>> THEN s.market ELSE M_ALL)
    \o <<"/">> \o (IF s.topic # <<>> THEN s.topic ELSE T_misc)
    \o <<"]", ":", " ">> \o normalizeContextText(s.text)

\* the prompt that renders every source instead of the first three
buildGroundedPrompt_allSources(question0, marketPref0, sources) ==
  LET blocks == joinWith(Eager([i \in 1..Len(sources) |-> sourceBlock(sources[i], i - 1)]),
                         <<"\n">>)
  IN trim(P_HEAD \o marketPref0
            \o <<"\n","Q","u","e","s","t","i","o","n",":"," ">> \o question0
            \o <<"\n","\n","S","O","P"," ","f","a","c","t","s",":","\n">> \o blocks
            \o <<"\n">>)

\* marketPref0 is the text the template prints for marketPref
buildGroundedPrompt(question0, marketPref0, sources) ==
  LET top == slice(sources, 0, 3)
      blocks == joinWith(Eager([i \in 1..Len(top) |-> sourceBlock(top[i], i - 1)]), <<"\n">>)
  IN trim(P_HEAD \o marketPref0
            \o <<"\n","Q","u","e","s","t","i","o","n",":"," ">> \o question0
            \o <<"\n","\n","S","O","P"," ","f","a","c","t","s",":","\n">> \o blocks
            \o <<"\n">>)

(***************************************************************************)
(* buildGroundedPrompt as a function of the sources (SpecPrompt).          *)
(***************************************************************************)
\* sources: a text one character over the cap of the context; a text of
\* exactly the cap with no title, market or topic; a short text; a text
\* with a code fence and runs of blanks
SOURCES ==
  { Chunk(<<"T","a","g","s">>, M_JO, T_tags, Rep("x", 1201)),
    Chunk(<<>>, <<>>, <<>>, Rep("y", 1200)),
    Chunk(<<"V","A","T">>, M_ALL, T_company, <<"V","a","t"," ","5">>),
    Chunk(<<"L","o","g","o">>, M_AE, T_images,
          <<"U","s","e"," "," ">> \o <<BACKTICK, BACKTICK, BACKTICK, "x", BACKTICK, BACKTICK,
                                       BACKTICK>> \o <<"\t"," ","i","t",".">>) }

MaxSources == 4

PromptInit ==
  /\ question = <<"T","a","g">>
  /\ marketPref \in {M_AUTO, M_JO}
  /\ chunks \in UNION { [1..n -> SOURCES] : n \in 0..MaxSources }
  /\ pcR = "input"
  /\ ranked = NONE
  /\ answer = NONE
  /\ permuted = NONE
  /\ answerPerm = NONE
  /\ answerLines = NONE
  /\ generated = NONE
  /\ ingest = NONE
  /\ env = [key |-> TRUE, mode |-> "flash"]
  /\ disk = <<>>
  /\ _cache = [loaded |-> FALSE, list |-> <<>>]
  /\ _aiCalls = 0
  /\ genCalls = 0
  /\ _aiCache = <<>>
  /\ now = 0
  /\ reqs = <<>>

\* buildGroundedPrompt({ question, marketPref, sources })
ApplyBuildGroundedPrompt ==
  /\ pcR = "input"
  /\ answer' = [prompt |-> buildGroundedPrompt(question, marketPref, chunks)]
  /\ pcR' = "prompt"
  /\ UNCHANGED <<ingest, question, marketPref, chunks, ranked, permuted, answerPerm, answerLines,
                 generated, srvVars>>

PromptNext == ApplyBuildGroundedPrompt

SpecPrompt == PromptInit /\ [][PromptNext]_vars

(***************************************************************************)
(* rag.js: the cache of generated texts, a Map in insertion order of       *)
(* entries [key, at, text].                                                *)
(***************************************************************************)
CACHE_MAX == 500

\* process.env.GEMINI_CACHE_TTL_MS as the environment of the model sets it
TTL == 0

cacheIndex(cache, key) ==
  LET at == {i \in 1..Len(cache) : cache[i].key = key}
  IN IF at = {} THEN 0 ELSE MinOf(at)

without(cache, i) == SubSeq(cache, 1, i - 1) \o SubSeq(cache, i + 1, Len(cache))

\* _cacheGet(key) at time t: [hit, text, cache]
cacheGet(cache, key, t) ==
  LET i == cacheIndex(cache, key)
  IN IF i = 0 THEN [hit |-> FALSE, text |-> <<>>, cache |-> cache]
     ELSE IF t - cache[i].at > TTL
       THEN [hit |-> FALSE, text |-> <<>>, cache |-> without(cache, i)]
     ELSE [hit |-> TRUE, text |-> cache[i].text, cache |-> cache]

\* the cache that removes the entry just written when it is over its size
cacheSet_evictsNewest(cache, key, text, t) ==
  LET i == cacheIndex(cache, key)
      e == [key |-> key, at |-> t, text |-> text]
      set == IF i = 0 THEN Append(cache, e) ELSE [cache EXCEPT ![i] = e]
  IN IF Len(set) > CACHE_MAX THEN SubSeq(set, 1, Len(set) - 1) ELSE set

\* _cacheSet(key, text) at time t
cacheSet(cache, key, text, t) ==
  LET i == cacheIndex(cache, key)
      e == [key |-> key, at |-> t, text |-> text]
      set == IF i = 0 THEN Append(cache, e) ELSE [cache EXCEPT ![i] = e]
  IN IF Len(set) > CACHE_MAX THEN Tail(set) ELSE set

cacheKeyOf(mode, prompt) == <<mode, ":">> \o slice(prompt, 0, 1200)

(***************************************************************************)
(* callGeminiAPI as one step (SpecCache): the cache is read, and on a miss *)
(* the service either answers the first request with a text or gives no    *)
(* text on any attempt.                                                    *)
(***************************************************************************)
\* reply is [ok, text]; the result is [ok, text, queried, cache]
callGeminiAPI(cache, mode, prompt, reply, t) ==
  The({ IF got.r.hit
        THEN [ok |-> TRUE, text |-> got.r.text, queried |-> FALSE, cache |-> got.r.cache]
        ELSE IF reply.ok
        THEN [ok |-> TRUE, text |-> reply.text, queried |-> TRUE,
              cache |-> cacheSet(got.r.cache, got.key, reply.text, t)]
        ELSE [ok |-> FALSE, text |-> <<>>, queried |-> TRUE, cache |-> got.r.cache] :
        got \in { [key |-> key, r |-> cacheGet(cache, key, t)] :
                  key \in {cacheKeyOf(mode, prompt)} } })

MaxCalls == 3

\* the prompt of the k-th of the earlier calls that filled the cache
earlierPrompt(k) ==
  <<"k", DIGITS[(k \div 100) + 1], DIGITS[((k \div 10) % 10) + 1], DIGITS[(k % 10) + 1]>>

\* the text the service generates for a prompt
textFor(prompt) == <<"r", "e", ":">> \o prompt

\* the cache after the first n of the earlier calls, all at time 0
filled(n) ==
  Eager([k \in 1..n |-> [key |-> cacheKeyOf("flash", earlierPrompt(k)), at |-> 0,
                          text |-> textFor(earlierPrompt(k))]])

\* two earlier prompts, a new prompt, and the prompts of two questions of
\* 1201 characters that differ in the last character
PROMPTS ==
  { earlierPrompt(1), earlierPrompt(2), <<"n","e","w">>,
    buildGroundedPrompt(Rep("q", 1200) \o <<"1">>, M_AUTO, <<>>),
    buildGroundedPrompt(Rep("q", 1200) \o <<"2">>, M_AUTO, <<>>) }

CacheInit ==
  /\ _aiCache \in { filled(n) : n \in {0, CACHE_MAX - 1, CACHE_MAX} }
  /\ now = 0
  /\ genCalls = 0
  /\ env = [key |-> TRUE, mode |-> "flash"]
  /\ pcR = "cache"
  /\ answer = [prompt |-> <<>>, ok |-> FALSE, text |-> <<>>, queried |-> FALSE]
  /\ question = <<>>
  /\ marketPref = <<>>
  /\ chunks = <<>>
  /\ ranked = NONE
  /\ permuted = NONE
  /\ answerPerm = NONE
  /\ answerLines = NONE
  /\ generated = NONE
  /\ ingest = NONE
  /\ disk = <<>>
  /\ _cache = [loaded |-> FALSE, list |-> <<>>]
  /\ _aiCalls = 0
  /\ reqs = <<>>

\* callGeminiAPI(prompt), and what it returned
CallGeminiAPI ==
  /\ genCalls < MaxCalls
  /\ \E prompt \in PROMPTS : \E ok \in BOOLEAN :
     \E out \in { callGeminiAPI(_aiCache, env.mode, prompt,
                                 [ok |-> ok, text |-> textFor(prompt)], now) } :
       /\ _aiCache' = out.cache
       /\ answer' = [prompt |-> prompt, ok |-> out.ok, text |-> out.text,
                     queried |-> out.queried]
  /\ genCalls' = genCalls + 1
  /\ UNCHANGED <<ingest, env, disk, _cache, _aiCalls, now, reqs, question, marketPref, chunks, pcR,
                 ranked, permuted, answerPerm, answerLines, generated>>

\* Date.now() advances
CacheTick ==
  /\ now < MaxTime
  /\ now' = now + 1
  /\ UNCHANGED <<ingest, env, disk, _cache, _aiCalls, _aiCache, reqs, genCalls, rankVars>>

CacheNext == CallGeminiAPI \/ CacheTick

SpecCache == CacheInit /\ [][CacheNext]_vars

(***************************************************************************)
(* server.js: the throttle, the sanitizer and the ask routes.              *)
(***************************************************************************)
\* process.env.GEMINI_MAX_CALLS_PER_MIN as the environment of the model sets it
MAX_PER_MIN == 1

LOOKS_GOOD == "Looks good (check mark)"

\* (process.env.GEMINI_MODE || "flash").toLowerCase() and !!process.env.GEMINI_KEY
Env(key, mode) == [key |-> key, mode |-> mode]

aiEnabled(e) == e.key /\ e.mode # "off"

\* the gatekeeper that counts the requests it flags as well
aiGatekeeper_countsFlagged(e, calls) ==
  IF ~aiEnabled(e) THEN [calls |-> calls, forceRAG |-> FALSE]
  ELSE [calls |-> calls + 1, forceRAG |-> calls >= MAX_PER_MIN]

\* aiGatekeeper: the counter and req.forceRAG it leaves
aiGatekeeper(e, calls) ==
  IF ~aiEnabled(e) THEN [calls |-> calls, forceRAG |-> FALSE]
  ELSE IF calls >= MAX_PER_MIN THEN [calls |-> calls, forceRAG |-> TRUE]
  ELSE [calls |-> calls + 1, forceRAG |-> FALSE]

\* s.replace(/\{[\s\S]{200,}\}/g, "") and the same for [ ]: from the first
\* opening bracket to the last closing one when 200 characters lie between
removeBig(s, open, close) ==
  LET os == {i \in 1..Len(s) : s[i] = open}
      cs == {i \in 1..Len(s) : s[i] = close}
  IN IF os # {} /\ cs # {} /\ MaxOf(cs) - MinOf(os) > 200
     THEN SubSeq(s, 1, MinOf(os) - 1) \o SubSeq(s, MaxOf(cs) + 1, Len(s))
     ELSE s

\* s.replace(/\n{3,}/g, "\n\n")
newlinesToTwo(s) ==
  SelectSeq(Eager([k \in 1..Len(s) |->
                     IF s[k] = "\n" /\ k > 2 /\ s[k - 1] = "\n" /\ s[k - 2] = "\n"
                     THEN "" ELSE s[k]]),
            LAMBDA c : c # "")

sanitizeAnswer(s0) ==
  IF s0 = <<>> THEN s0
  ELSE LET s == trim(newlinesToTwo(removeBig(removeBig(removeFences(s0, 0), "{", "}"),
                                              "[", "]")))
       IN IF Len(s) > 800 THEN slice(s, 0, 800) \o <<" ", "hellip">> ELSE s

\* the guard of a wrong answerOne: the generator whenever it is enabled
useGenerator_ignoringForce(forceRAG, enabled) == enabled

\* answerOne: !forceRAG && aiEnabled
useGenerator(forceRAG, enabled) == ~forceRAG /\ enabled

\* a wrong answerOne: the default answer when the generator gave nothing
finalAnswerOf_defaultOnNull(ragText, ai) ==
  IF ai.ok /\ trim(ai.text) # <<>>
  THEN (IF sanitizeAnswer(trim(ai.text)) = <<>> THEN <<LOOKS_GOOD>>
        ELSE sanitizeAnswer(trim(ai.text)))
  ELSE <<LOOKS_GOOD>>

\* answerOne: finalAnswer, and the answer it returns
finalAnswerOf(ragText, ai) ==
  LET finalAnswer == IF ai.ok /\ trim(ai.text) # <<>> THEN sanitizeAnswer(trim(ai.text))
                     ELSE ragText
  IN IF finalAnswer = <<>> THEN <<LOOKS_GOOD>> ELSE finalAnswer

\* the market of a request body: its type ("undefined" when absent,
\* "string" or "number") and the text String() gives for it
Market(t, v) == [t |-> t, v |-> v]

\* const { market = "AUTO" } = req.body
marketOf(m) == IF m.t = "undefined" THEN Market("string", M_AUTO) ELSE m

\* (marketPref || "AUTO").toUpperCase() of scoreChunks throws for a number
scoreChunksThrows(ALL, m) == ~emptyStore(ALL) /\ m.t = "number"

\* a line of cuteList; first is (answer || "").split("\n")[0].trim()
cuteLine(res) ==
  LET first == trim(splitNewline(res.answer)[1])
  IN <<"bull", " ", "*", "*">> \o res.label \o <<"*", "*", " ", "mdash", " ">>
       \o (IF first = <<>> THEN <<LOOKS_GOOD>> ELSE first)

\* the fixed first and last lines are single elements
cuteList(results) ==
  <<"Here's what I found (sparkles)", "\n", "\n">>
    \o joinWith(Eager([i \in 1..Len(results) |-> cuteLine(results[i])]), <<"\n">>)
    \o <<"\n", "\n", "Want me to suggest cuisine tags too? (cat)">>

\* results.flatMap(r => r.sources || [])
RECURSIVE flatSources(_)
flatSources(results) ==
  IF results = <<>> THEN <<>> ELSE Head(results).sources \o flatSources(Tail(results))

\* text.split("\n").map(s => s.trim()).filter(Boolean)
itemsOf(text) == trimmedLines(splitNewline(text))

\* a response: the status, and the fields of the JSON body ("" for none)
Response(status, answer0, sources, buddyMood, error, details) ==
  [status |-> status, answer |-> answer0, sources |-> sources,
   buddyMood |-> buddyMood, error |-> error, details |-> details]


\* String(err) of the exception scoreChunks throws for a number
MARKET_ERROR == "TypeError: (marketPref || \"AUTO\").toUpperCase is not a function"

\* a request slot nobody uses yet
IDLE ==
  [pc |-> "idle", market |-> Market("undefined", <<>>), forceRAG |-> FALSE, items |-> <<>>,
   i |-> 0, rag |-> [text |-> <<>>, sources |-> <<>>], results |-> <<>>, cacheKey |-> <<>>,
   m |-> 0, attempt |-> 0, delay |-> 0, code |-> 0,
   response |-> Response(0, <<>>, <<>>, "", "", "")]

\* the models of a mode, in the order tried
MODELS(mode) ==
  IF mode = "flash"
  THEN <<"gemini-2.0-flash", "gemini-2.0-flash-lite", "gemini-1.5-flash">>
  ELSE <<"gemini-2.5-flash", "gemini-2.0-flash", "gemini-2.0-flash-lite">>

\* answerOne returns and handleAsk pushes the result of item i; ai is what
\* callGeminiAPI gave (ok is FALSE for null), called whether it was called
afterGemini(rq, i, ai) ==
  LET res == [label |-> rq.items[i], answer |-> finalAnswerOf(rq.rag.text, ai),
              sources |-> rq.rag.sources, rag |-> rq.rag.text,
              called |-> ai.called, ai |-> [ok |-> ai.ok, text |-> ai.text]]
  IN [rq EXCEPT !.results = Append(@, res)]

\* answerOne from the generation step on: rq holds the rag of item i, key is
\* the cache key of its prompt.  Without the generator, or on a cache hit, the
\* result is pushed and the request runs on; otherwise it awaits fetch.
generate(rq, i, key, K, cache, e, t) ==
  LET gen == useGenerator(rq.forceRAG, aiEnabled(e))
      got == IF gen THEN cacheGet(cache, key, t)
             ELSE [hit |-> FALSE, text |-> <<>>, cache |-> cache]
  IN IF gen /\ ~got.hit
     THEN [rq |-> [rq EXCEPT !.pc = "fetch", !.cacheKey = key, !.m = 1,
                             !.attempt = 1, !.delay = 400],
           K |-> K, cache |-> got.cache]
     ELSE [rq |-> afterGemini(rq, i, [ok |-> got.hit, text |-> got.text, called |-> gen]),
           K |-> K, cache |-> got.cache]

\* answerOne for item i once getKnowledge returned K: scoreChunks throws, or
\* buildAnswer gives the rag and the generation step follows
answerOne(rq, i, K, cache, e, t) ==
  IF scoreChunksThrows(K.list, marketOf(rq.market))
  THEN [rq |-> [rq EXCEPT !.pc = "done", !.i = i,
                          !.response = Response(500, <<>>, <<>>, "", "server_error",
                                                 MARKET_ERROR)],
        K |-> K, cache |-> cache]
  ELSE The({ generate([rq EXCEPT !.i = i, !.rag = rag], i,
                      cacheKeyOf(e.mode,
                                 buildGroundedPrompt(rq.items[i], marketOf(rq.market).v,
                                                     rag.sources)),
                      K, cache, e, t) :
             rag \in { buildAnswer(K.list, rq.items[i], marketOf(rq.market).v) } })

\* handleAsk from item i on, up to the next await of fetch or to the response.
\* st is [rq, K, cache]: the request (pc "run" while handleAsk runs), the
\* knowledge cache and the generated-text cache; e is the environment, dirs
\* the directories, t the time.
RECURSIVE runItems(_, _, _, _, _)
runItems(st, i, e, dirs, t) ==
  IF st.rq.pc # "run" THEN st
  ELSE IF i > Len(st.rq.items)
  THEN [st EXCEPT !.rq.pc = "done",
                  !.rq.response =
                    IF Len(st.rq.items) > 1
                    THEN Response(200, cuteList(st.rq.results), flatSources(st.rq.results),
                                  "helpful", "", "")
                    ELSE Response(200, st.rq.results[1].answer, st.rq.results[1].sources,
                                  "happy", "", "")]
  ELSE runItems(answerOne(st.rq, i, getKnowledge(st.K, dirs), st.cache, e, t),
                i + 1, e, dirs, t)

\* callGeminiAPI returned ai for the item the request waits on: the rest of
\* answerOne and of handleAsk
resume(rq, ai, K, cache, e, dirs, t) ==
  runItems([rq |-> [afterGemini(rq, rq.i, ai) EXCEPT !.pc = "run", !.code = 0],
            K |-> K, cache |-> cache],
           rq.i + 1, e, dirs, t)

\* a wrong callGeminiAPI: after the attempts on a model it tries that model again
nextModel_sameModel(rq, ai, K, cache, e, dirs, t) ==
  IF ~ai.ok
  THEN [rq |-> [rq EXCEPT !.pc = "fetch", !.attempt = 1, !.delay = 400],
        K |-> K, cache |-> cache]
  ELSE resume(rq, ai, K, cache, e, dirs, t)

\* callGeminiAPI after the attempts on a model ended with ai: without a text
\* the next model is tried, if there is one; otherwise callGeminiAPI returns
nextModel(rq, ai, K, cache, e, dirs, t) ==
  IF ~ai.ok /\ rq.m < Len(MODELS(e.mode))
  THEN [rq |-> [rq EXCEPT !.pc = "fetch", !.m = @ + 1, !.attempt = 1, !.delay = 400],
        K |-> K, cache |-> cache]
  ELSE resume(rq, ai, K, cache, e, dirs, t)

\* the invocations of callGeminiAPI a request has made: those that returned
\* and the one it waits in
started(rq) ==
  Cardinality({k \in 1..Len(rq.results) : rq.results[k].called})
    + (IF rq.pc \in {"fetch", "sleep"} THEN 1 ELSE 0)

\* what fetch and r.json() can give: an exception, or a status and the text
\* of the first candidate
Reply(threw, status, txt) == [threw |-> threw, status |-> status, txt |-> txt]

\* the first digit of String(code)
RECURSIVE firstDigit(_)
firstDigit(n) == IF n < 10 THEN n ELSE firstDigit(n \div 10)

\* code === 429 || String(code).startsWith("5")
retryable(status) == status = 429 \/ firstDigit(status) = 5

\* what callGeminiAPI can return: null; blank text; text that is a code fence,
\* a bracketed block of more than 200 characters, or both; text around a
\* fence; plain text
FENCE == <<BACKTICK, BACKTICK, BACKTICK>>

AI_TEXTS ==
  { [ok |-> FALSE, text |-> <<>>],
    [ok |-> TRUE, text |-> <<" ", "\n", " ">>],
    [ok |-> TRUE, text |-> FENCE \o <<"j","s","o","n","\n","{","}","\n">> \o FENCE],
    [ok |-> TRUE, text |-> <<" ">> \o FENCE \o <<"x">> \o FENCE \o <<"\n">>],
    [ok |-> TRUE, text |-> <<"{">> \o Rep("x", 201) \o <<"}">>],
    [ok |-> TRUE, text |-> <<"[">> \o Rep("x", 201) \o <<"]">> \o FENCE \o FENCE],
    [ok |-> TRUE, text |-> <<"O","K"," ">> \o FENCE \o <<"x">> \o FENCE],
    [ok |-> TRUE, text |-> <<"U","s","e"," ","3"," ","t","a","g","s",".">>] }

TEXT_LISTS == { <<>>, <<C_tagsJO>>, <<C_vat, C_tagsALL>> }

TextInit ==
  /\ question \in QUESTIONS
  /\ marketPref \in {M_AUTO, M_JO}
  /\ chunks \in TEXT_LISTS
  /\ generated \in AI_TEXTS
  /\ ingest = NONE
  /\ pcR = "input"
  /\ ranked = NONE
  /\ answer = NONE
  /\ permuted = NONE
  /\ answerPerm = NONE
  /\ answerLines = NONE
  /\ env = [key |-> TRUE, mode |-> "flash"]
  /\ disk = <<>>
  /\ _cache = [loaded |-> TRUE, list |-> chunks]
  /\ _aiCalls = 0
  /\ genCalls = 0
  /\ _aiCache = <<>>
  /\ now = 0
  /\ reqs = <<>>

\* answerOne(message, market, false) with the generator enabled, given what
\* callGeminiAPI returned: the rag of buildAnswer and the answer returned
ApplyAnswerOne ==
  /\ pcR = "input"
  /\ \E rag \in { buildAnswer(chunks, question, marketPref) } :
       answer' = [rag |-> rag, answer |-> finalAnswerOf(rag.text, generated)]
  /\ pcR' = "answerOne"
  /\ UNCHANGED <<ingest, question, marketPref, chunks, ranked, permuted, answerPerm, answerLines,
                 generated, srvVars>>

TextNext == ApplyAnswerOne

SpecText == TextInit /\ [][TextNext]_vars

(***************************************************************************)
(* The process: requests on the ask routes, the replies of the generation  *)
(* service, the timers.                                                    *)
(***************************************************************************)
\* a file that is not .json and a .json file that does not parse
F_other ==
  << File(<<"n","o","t","e","s",".","t","x","t">>, FALSE, JNull),
     File(<<"b","r","o","k","e","n",".","j","s","o","n">>, FALSE, JNull) >>
\* a heading, a bulleted rule, and a member holding a rule and a file reference
F_tags ==
  File(<<"t","a","g","s","_","s","o","p",".","j","s","o","n">>, TRUE,
       JArr(<< JStr(<<"T","a","g","g","i","n","g"," ","R","u","l","e","s">>),
               JStr(<<"-"," ","U","s","e"," ","u","p"," ","t","o"," ","t","h","r","e","e"," ",
                      "c","u","i","s","i","n","e"," ","t","a","g","s"," ","f","o","r"," ",
                      "e","v","e","r","y"," ","r","e","s","t","a","u","r","a","n","t",".">>),
               JObj(<< [k |-> "note",
                        v |-> JStr(<<"s","l","i","d","e"," ","4"," ","A","v","o","i","d"," ",
                                     "t","h","e"," ","F","a","s","t"," ","F","o","o","d"," ",
                                     "t","a","g"," ","u","n","l","e","s","s"," ","i","t"," ",
                                     "i","s"," ","a"," ","t","r","u","e"," ","Q","S","R"," ",
                                     "b","r","a","n","d",".","\n","S","e","e"," ","M","e","n",
                                     "u",".","p","p","t","x">>)] >>) >>))

\* process.cwd(), its knowledge directory, __dirname and its knowledge
\* directory; the process is started in the directory of its modules
D_EMPTY ==
  << Dir("app", TRUE, F_other), Dir("app/knowledge", FALSE, <<>>),
     Dir("app", TRUE, F_other), Dir("app/knowledge", FALSE, <<>>) >>
D_SOP ==
  << Dir("app", TRUE, F_other), Dir("app/knowledge", TRUE, <<F_tags>>),
     Dir("app", TRUE, F_other), Dir("app/knowledge", TRUE, <<F_tags>>) >>

DISKS == <<D_EMPTY, D_SOP>>

ENVS == { Env(TRUE, "flash"), Env(TRUE, "off"), Env(FALSE, "flash") }

\* a request body: its message and its market
Body(message, market) == [message |-> message, market |-> market]

\* a blank message; one line with no market and with a number for the
\* market; two lines with a market
BODIES ==
  { Body(<<" ">>, Market("undefined", <<>>)),
    Body(<<"t","a","g","s","?">>, Market("undefined", <<>>)),
    Body(<<"t","a","g","s","?">>, Market("number", <<"7">>)),
    Body(<<"v","a","t","\n"," ","t","a","g","s","?">>, Market("string", M_JO)) }


\* an exception; 200 with a text and without one; 429, 503 and 400
REPLIES ==
  { Reply(TRUE, 0, <<>>),
    Reply(FALSE, 200, <<"U","s","e"," ","u","p"," ","t","o"," ","3"," ","t","a","g","s",".">>),
    Reply(FALSE, 200, <<>>), Reply(FALSE, 429, <<>>), Reply(FALSE, 503, <<>>),
    Reply(FALSE, 400, <<>>) }

Init ==
  /\ env \in ENVS
  /\ \E d \in 1..Len(DISKS) : disk = DISKS[d]
  /\ _cache = [loaded |-> FALSE, list |-> <<>>]
  /\ _aiCalls = 0
  /\ genCalls = 0
  /\ _aiCache = <<>>
  /\ now = 0
  /\ reqs = [r \in 1..MaxReq |-> IDLE]
  /\ question = <<>>
  /\ marketPref = <<>>
  /\ chunks = <<>>
  /\ pcR = "server"
  /\ ranked = NONE
  /\ answer = NONE
  /\ permuted = NONE
  /\ answerPerm = NONE
  /\ answerLines = NONE
  /\ generated = NONE
  /\ ingest = NONE

\* POST /ask, /chat or /api/ask: aiGatekeeper, then handleAsk up to its
\* response or to the first await of fetch.  Requests take the slots in order.
Ask(r) ==
  /\ reqs[r].pc = "idle"
  /\ Cardinality({q \in 1..MaxReq : reqs[q].pc \in {"fetch", "sleep"}}) < MaxInFlight
  /\ IF r = 1 THEN TRUE ELSE reqs[r - 1].pc # "idle"
  /\ \E body \in BODIES :
       LET gate == aiGatekeeper(env, _aiCalls)
           rq0 == [IDLE EXCEPT !.market = body.market, !.forceRAG = gate.forceRAG,
                               !.items = itemsOf(trim(body.message))]
       IN \E out \in { IF trim(body.message) = <<>>
                       THEN [rq |-> [rq0 EXCEPT !.pc = "done",
                                                !.response = Response(400, <<>>, <<>>, "",
                                                                      "missing_message", "")],
                             K |-> _cache, cache |-> _aiCache]
                       ELSE runItems([rq |-> [rq0 EXCEPT !.pc = "run"], K |-> _cache,
                                      cache |-> _aiCache], 1, env, disk, now) } :
            /\ _aiCalls' = gate.calls
            /\ genCalls' = genCalls + started(out.rq)
            /\ reqs' = [reqs EXCEPT ![r] = out.rq]
            /\ _cache' = out.K
            /\ _aiCache' = out.cache
  /\ UNCHANGED <<ingest, env, disk, now, rankVars>>

\* a request on another route (GET /health): aiGatekeeper only
Health ==
  /\ _aiCalls' = aiGatekeeper(env, _aiCalls).calls
  /\ UNCHANGED <<ingest, env, disk, _cache, _aiCache, now, reqs, genCalls, rankVars>>

\* callGeminiAPI: fetch and r.json() settle, and the code up to the next await
FetchResponds(r) ==
  /\ reqs[r].pc = "fetch"
  /\ \E reply \in REPLIES :
       LET rq == [reqs[r] EXCEPT !.code = IF reply.threw THEN 0 ELSE reply.status]
           ok == ~reply.threw /\ reply.status \in 200..299 /\ reply.txt # <<>>
       IN \E out \in { IF reply.threw \/ (~ok /\ retryable(reply.status))
                       THEN [rq |-> [rq EXCEPT !.pc = "sleep", !.code = 0], K |-> _cache,
                             cache |-> _aiCache]
                       ELSE nextModel(rq, [ok |-> ok, text |-> reply.txt, called |-> TRUE],
                                      _cache,
                                      IF ok THEN cacheSet(_aiCache, rq.cacheKey, reply.txt, now)
                                      ELSE _aiCache,
                                      env, disk, now) } :
            /\ reqs' = [reqs EXCEPT ![r] = out.rq]
            /\ _cache' = out.K
            /\ _aiCache' = out.cache
            /\ genCalls' = genCalls + started(out.rq) - started(reqs[r])
  /\ UNCHANGED <<ingest, env, disk, _aiCalls, now, rankVars>>

\* callGeminiAPI: _sleep(delay) ends; delay doubles, the next attempt starts
SleepEnds(r) ==
  /\ reqs[r].pc = "sleep"
  /\ LET rq == [reqs[r] EXCEPT !.delay = @ * 2]
     IN \E out \in { IF rq.attempt < 3
                     THEN [rq |-> [rq EXCEPT !.pc = "fetch", !.attempt = @ + 1],
                           K |-> _cache, cache |-> _aiCache]
                     ELSE nextModel(rq, [ok |-> FALSE, text |-> <<>>, called |-> TRUE],
                                    _cache, _aiCache, env, disk, now) } :
          /\ reqs' = [reqs EXCEPT ![r] = out.rq]
          /\ _cache' = out.K
          /\ _aiCache' = out.cache
          /\ genCalls' = genCalls + started(out.rq) - started(reqs[r])
  /\ UNCHANGED <<ingest, env, disk, _aiCalls, now, rankVars>>

\* setInterval(() => { _aiCalls = 0 }, 60000)
ThrottleReset ==
  /\ _aiCalls' = 0
  /\ genCalls' = 0
  /\ UNCHANGED <<ingest, env, disk, _cache, _aiCache, now, reqs, rankVars>>

\* Date.now() advances.  The clock is read only against the entries of
\* _aiCache, so the model starts it with the first entry.
Tick ==
  /\ _aiCache # <<>>
  /\ now < MaxTime
  /\ now' = now + 1
  /\ UNCHANGED <<ingest, env, disk, _cache, _aiCalls, _aiCache, reqs, genCalls, rankVars>>

\* the files of the knowledge directories change while the process runs
DiskChanges ==
  /\ \E d \in 1..Len(DISKS) : disk' = DISKS[d] /\ disk' # disk
  /\ UNCHANGED <<ingest, env, _cache, _aiCalls, _aiCache, now, reqs, genCalls, rankVars>>

Next ==
  \/ \E r \in 1..MaxReq : Ask(r)
  \/ Health
  \/ \E r \in 1..MaxReq : FetchResponds(r)
  \/ \E r \in 1..MaxReq : SleepEnds(r)
  \/ ThrottleReset
  \/ Tick
  \/ DiskChanges

Spec == Init /\ [][Next]_vars

\* every fetch settles and every timer of _sleep fires: weak fairness of
\* FetchResponds(r) and of SleepEnds(r), with ENABLED written as the guard
\* of the action (each has a step that changes the state whenever its guard
\* holds)
Fairness ==
  \A r \in 1..MaxReq :
    /\ []<>(reqs[r].pc # "fetch") \/ []<><<FetchResponds(r)>>_vars
    /\ []<>(reqs[r].pc # "sleep") \/ []<><<SleepEnds(r)>>_vars

\* the ask routes alone: requests, replies and timers
NextAsk ==
  \/ \E r \in 1..MaxReq : Ask(r)
  \/ \E r \in 1..MaxReq : FetchResponds(r)
  \/ \E r \in 1..MaxReq : SleepEnds(r)

SpecLive == Init /\ [][NextAsk]_vars /\ Fairness

(***************************************************************************)
(* make_knowledge.mjs: the topic and the market of a section.              *)
(***************************************************************************)
\* /\bw/ for a w beginning with a word character
matchWordStart(s, w) ==
  \E i \in 0..Len(s) : matchAt(s, w, i) /\ (i = 0 \/ ~isWordCh(s[i]))

\* /step[_\s-]*by[_\s-]*step/
rxStepByStep(s) ==
  LET gapEnd(i) == MinOf({k \in i..Len(s) :
                           k = Len(s) \/ ~(isSpaceCh(s[k + 1]) \/ s[k + 1] \in {"_", "-"})})
  IN \E i \in 0..Len(s) :
       /\ matchAt(s, <<"s","t","e","p">>, i)
       /\ \E a \in (i + 4)..gapEnd(i + 4) :
            /\ matchAt(s, <<"b","y">>, a)
            /\ \E b \in (a + 2)..gapEnd(a + 2) : matchAt(s, <<"s","t","e","p">>, b)

\* the labels of TOPIC_HINTS in table order, and rx.test(hay) of the k-th
TOPIC_HINTS == <<T_company, T_tags, T_writing, T_images, T_zones>>

testTopicHint(k, hay) ==
  IF k = 1 THEN
    \/ \E w \in {
      <<"c","o","m","p","a","n","y">>, <<"c","r">>, <<"t","r","n">>, <<"v","a","t">>,
      <<"l","i","c","e","n","s","e">> } : includes(hay, w)
    \/ rxStepByStep(hay)
  ELSE \E w \in (IF k = 2 THEN {
      <<"t","a","g">>, <<"c","u","i","s","i","n","e">>, <<"p","o","l","i","c","y">>,
      <<"g","1">>, <<"g","2">> }
                 ELSE IF k = 3 THEN {
      <<"w","r","i","t","i","n","g">>, <<"c","a","p","i","t","a","l">>,
      <<"c","u","s","t","o","m">> }
                 ELSE IF k = 4 THEN {
      <<"i","m","a","g","e">>, <<"h","e","r","o">>, <<"1","2","0","0">>, <<"1","1","2","5">>,
      <<"7","8","0">>, <<"a","s","s","e","t">> }
                 ELSE {
      <<"z","o","n","e">>, <<"r","a","d","i","u","s">>,
      <<"d","i","s","c","o","v","e","r","y">>, <<"c","o","v","e","r","a","g","e">> }) : includes(hay, w)

\* the labels of MARKET_HINTS in table order, and rx.test(hay) of the k-th
MARKET_HINTS == <<M_AE, M_JO, <<"S","A">>>>

testMarketHint(k, hay) ==
  IF k = 1 THEN
    \/ matchWordStart(hay, <<"u","a","e">>) \/ matchWordEnd(hay, <<"u","a","e">>)
    \/ matchGap(hay, <<"a","b","u">>, <<"d","h","a","b","i">>)
    \/ \E w \in {
      <<"d","u","b","a","i">>, <<"s","h","a","r","j","a","h">>, <<"a","j","m","a","n">> } : includes(hay, w)
  ELSE IF k = 2 THEN
    \/ matchWordStart(hay, <<"j","o","r","d","a","n">>) \/ matchWordEnd(hay, <<"j","o">>)
    \/ \E w \in {
      <<"a","m","m","a","n">>, <<"i","r","b","i","d">>, <<"z","a","r","q","a">> } : includes(hay, w)
  ELSE
    \/ matchWordStart(hay, <<"k","s","a">>) \/ matchWordEnd(hay, <<"s","a">>)
    \/ \E w \in {
      <<"r","i","y","a","d","h">>, <<"j","e","d","d","a","h">> } : includes(hay, w)

\* for (const h of TOPIC_HINTS) if (h.rx.test(hay)) return h.topic
RECURSIVE firstTopic(_, _)
firstTopic(k, hay) ==
  IF k > Len(TOPIC_HINTS) THEN T_misc
  ELSE IF testTopicHint(k, hay) THEN TOPIC_HINTS[k]
  ELSE firstTopic(k + 1, hay)

\* a detectTopic that keeps the last rule that matches
RECURSIVE lastTopic(_, _)
lastTopic(k, hay) ==
  IF k < 1 THEN T_misc
  ELSE IF testTopicHint(k, hay) THEN TOPIC_HINTS[k]
  ELSE lastTopic(k - 1, hay)

detectTopic_lastMatch(name, text) ==
  lastTopic(Len(TOPIC_HINTS), toLowerCase(name \o <<"\n">> \o text))

\* detectTopic(name, text) of make_knowledge.mjs
detectTopic_ingest(name, text) == firstTopic(1, toLowerCase(name \o <<"\n">> \o text))

RECURSIVE firstMarket(_, _)
firstMarket(k, hay) ==
  IF k > Len(MARKET_HINTS) THEN M_ALL
  ELSE IF testMarketHint(k, hay) THEN MARKET_HINTS[k]
  ELSE firstMarket(k + 1, hay)

detectMarket(name, text) == firstMarket(1, toLowerCase(name \o <<"\n">> \o text))

(***************************************************************************)
(* detectTopic and detectMarket as functions (SpecClassify).               *)
(***************************************************************************)
CLASSIFY_NAMES ==
  {
      <<>>, <<"T","a","g","s","_","P","o","l","i","c","y",".","d","o","c","x">>,
      <<"a","m","m","a","n"," ","m","e","n","u",".","p","p","t","x">>,
      <<"s","t","e","p","_","b","y","-","s","t","e","p",".","d","o","c","x">>,
      <<"n","o","t","e","s",".","d","o","c","x">> }

\* texts that no rule matches, that one rule matches, that several match,
\* and that the rules of rag.js and of make_knowledge.mjs treat differently
CLASSIFY_TEXTS ==
  {
      <<>>, <<"h","e","l","l","o">>,
      <<"S","i","z","e"," ","o","f"," ","t","h","e"," ","l","o","g","o">>,
      <<"A","d","d","r","e","s","s">>, <<"D","e","s","c","r","i","p","t","i","o","n">>,
      <<"P","o","l","i","c","y">>, <<"U","s","e"," ","t","a","g","s">>,
      <<"V","A","T"," ","a","n","d"," ","t","a","g","s">>,
      <<"H","e","r","o"," ","i","m","a","g","e"," ","a","n","d"," ","z","o","n","e">>,
      <<"C","a","p","i","t","a","l"," ","l","e","t","t","e","r","s">>,
      <<"C","u","s","t","o","m"," ","z","o","n","e"," ","r","a","d","i","u","s">>,
      <<"D","u","b","a","i">>, <<"m","o","j","o">>,
      <<"v","i","s","a"," ","i","n"," ","J","o","r","d","a","n">>, <<"U","A","E">>,
      <<"q","u","a","e">>,
      <<"A","b","u"," "," ","D","h","a","b","i"," ","a","n","d"," ","K","S","A">>,
      <<"S","t","e","p"," ","-"," ","b","y"," ","_"," ","s","t","e","p">>,
      <<"f","a","s","t"," ","f","o","o","d">>,
      <<"d","e","l","i","v","e","r","y"," ","a","r","e","a">>,
      <<"D","i","s","c","o","v","e","r","y"," ","o","f"," ","c","u","i","s","i","n","e">>,
      <<"1","2","0","0"," ","x"," ","7","8","0">>, <<"C","o","v","e","r","a","g","e">>,
      <<"p","l","a","n"," ","a">>, <<"c","+"," ","b","r","a","n","d">>, <<"T","L">>,
      <<"D","u","b","a","i"," ","t","a","g","s"," ","a","n","d"," ","V","A","T">> }

ClassifyInit ==
  /\ \E name \in CLASSIFY_NAMES : \E text \in CLASSIFY_TEXTS :
       ingest = [pc |-> "input", name |-> name, text |-> text, topic |-> <<>>,
                 market |-> <<>>, queryTopic |-> <<>>]
  /\ question = <<>>
  /\ marketPref = <<>>
  /\ chunks = <<>>
  /\ pcR = "classify"
  /\ ranked = NONE
  /\ answer = NONE
  /\ permuted = NONE
  /\ answerPerm = NONE
  /\ answerLines = NONE
  /\ generated = NONE
  /\ env = [key |-> FALSE, mode |-> "off"]
  /\ disk = <<>>
  /\ _cache = [loaded |-> FALSE, list |-> <<>>]
  /\ _aiCalls = 0
  /\ genCalls = 0
  /\ _aiCache = <<>>
  /\ now = 0
  /\ reqs = <<>>

\* detectMarket(name, fullText) and detectTopic(name, fullText) as main calls
\* them for a section, and detectTopic(text) of rag.js for the text as a query
Classify ==
  /\ ingest.pc = "input"
  /\ ingest' = [ingest EXCEPT !.pc = "classified",
                              !.market = detectMarket(ingest.name, ingest.text),
                              !.topic = detectTopic_ingest(ingest.name, ingest.text),
                              !.queryTopic = detectTopic(ingest.text)]
  /\ UNCHANGED <<rankVars, srvVars>>

ClassifyNext == Classify

SpecClassify == ClassifyInit /\ [][ClassifyNext]_vars

(***************************************************************************)
(* make_knowledge.mjs: sections into chunks, chunks into collection files. *)
(* A raw document is [name, ext, parses, sections]: parses tells whether   *)
(* its parser (mammoth, AdmZip, xlsx) returns or throws, sections is what  *)
(* docxToSections / parsePptxToSlides return, each a title and a text.     *)
(***************************************************************************)
MAX_CHARS_SMART == 1200

MAX_CHARS_FULL == 3000

\* String(text).split(/(?<=[.!?])\s+(?=[^\s])/g): the separators are the
\* runs of white space that follow ., ! or ? and are followed by a character
RECURSIVE sentencesFrom(_, _)
sentencesFrom(s, from) ==
  The({ IF seps = {} THEN <<SubSeq(s, from + 1, Len(s))>>
        ELSE <<SubSeq(s, from + 1, MinOf(seps))>>
               \o sentencesFrom(s, spanEnd(s, MinOf(seps), "s")) :
        seps \in { {i \in Max2(from, 1)..(Len(s) - 1) :
                      /\ s[i] \in {".", "!", "?"}
                      /\ isSpaceCh(s[i + 1])
                      /\ spanEnd(s, i, "s") < Len(s)} } })

\* the loop of splitSmartBySentences from sentence k on, and its last flush
RECURSIVE smartLoop(_, _, _, _, _)
smartLoop(sentences, k, buf, parts, maxChars) ==
  LET flushed == IF trim(buf) # <<>> THEN Append(parts, trim(buf)) ELSE parts
  IN IF k > Len(sentences) THEN flushed
     ELSE IF Len(buf) + 1 + Len(sentences[k]) > maxChars
       THEN smartLoop(sentences, k + 1, sentences[k], flushed, maxChars)
     ELSE smartLoop(sentences, k + 1,
                    IF buf # <<>> THEN buf \o <<" ">> \o sentences[k] ELSE sentences[k],
                    parts, maxChars)

\* the split that leaves out the buffer that remains after the last sentence
RECURSIVE smartLoop_noLastFlush(_, _, _, _, _)
smartLoop_noLastFlush(sentences, k, buf, parts, maxChars) ==
  IF k > Len(sentences) THEN parts
  ELSE IF Len(buf) + 1 + Len(sentences[k]) > maxChars
    THEN smartLoop_noLastFlush(sentences, k + 1, sentences[k],
                               IF trim(buf) # <<>> THEN Append(parts, trim(buf)) ELSE parts,
                               maxChars)
  ELSE smartLoop_noLastFlush(sentences, k + 1,
                             IF buf # <<>> THEN buf \o <<" ">> \o sentences[k]
                             ELSE sentences[k],
                             parts, maxChars)

splitSmartBySentences_noLastFlush(text, maxChars) ==
  smartLoop_noLastFlush(sentencesFrom(text, 0), 1, <<>>, <<>>, maxChars)

splitSmartBySentences(text, maxChars) ==
  smartLoop(sentencesFrom(text, 0), 1, <<>>, <<>>, maxChars)

\* `${n}` for n < 100
decimal(n) ==
  IF n < 10 THEN <<DIGITS[n + 1]>> ELSE <<DIGITS[(n \div 10) + 1], DIGITS[(n % 10) + 1]>>

\* the entries main pushes for a section of the file name
sectionEntries(mode, name, sec) ==
  \* one binding of the market and the topic for all the entries
  The({ IF mode = "full" \/ Len(sec.text) <= MAX_CHARS_SMART
        THEN << [title |-> sec.title, topic |-> l.topic, market |-> l.market,
                 text |-> sec.text] >>
        ELSE Eager([idx \in 1..Len(l.parts) |->
                      [title |-> sec.title \o <<" ","(","p","a","r","t"," ">> \o decimal(idx)
                                   \o <<")">>,
                       topic |-> l.topic, market |-> l.market, text |-> l.parts[idx]]]) :
        l \in { [market |-> detectMarket(name, sec.text),
                 topic |-> detectTopic_ingest(name, sec.text),
                 parts |-> IF mode = "full" \/ Len(sec.text) <= MAX_CHARS_SMART THEN <<>>
                           ELSE splitSmartBySentences(sec.text, MAX_CHARS_SMART)] } })

\* outPathForTopic: the file name under ./knowledge
outPathForTopic(topic) == topic \o <<"_","s","o","p",".","j","s","o","n">>

\* buckets is the Map of main in insertion order, a list of [path, entries]
pushEntry(buckets, topic, entry) ==
  LET at == {b \in 1..Len(buckets) : buckets[b].path = outPathForTopic(topic)}
  IN IF at = {} THEN Append(buckets, [path |-> outPathForTopic(topic), entries |-> <<entry>>])
     ELSE [buckets EXCEPT ![MinOf(at)].entries = Append(@, entry)]

RECURSIVE pushAll(_, _, _)
pushAll(buckets, entries, k) ==
  IF k > Len(entries) THEN buckets
  ELSE pushAll(pushEntry(buckets, entries[k].topic, entries[k]), entries, k + 1)

RECURSIVE pushSections(_, _, _, _, _)
pushSections(buckets, mode, name, sections, k) ==
  IF k > Len(sections) THEN buckets
  ELSE pushSections(pushAll(buckets, sectionEntries(mode, name, sections[k]), 1),
                    mode, name, sections, k + 1)

\* String.prototype.localeCompare for the characters the model draws: white
\* space, punctuation, digits, letters; upper case after lower case when
\* the strings are otherwise equal
COLLATION == <<"\n", " ", "_", "-", "mdash", ".", "(", ")">> \o DIGITS \o LOWER

localeCompare(a, b) ==
  LET rank(c) == CHOOSE r \in 1..Len(COLLATION) : COLLATION[r] = toLowerCaseCh(c)
      n == Min2(Len(a), Len(b))
      d1 == {i \in 1..n : rank(a[i]) # rank(b[i])}
      d3 == {i \in 1..n : a[i] # b[i]}
  IN IF d1 # {} THEN (IF rank(a[MinOf(d1)]) < rank(b[MinOf(d1)]) THEN -1 ELSE 1)
     ELSE IF Len(a) # Len(b) THEN (IF Len(a) < Len(b) THEN -1 ELSE 1)
     ELSE IF d3 = {} THEN 0
     ELSE IF a[MinOf(d3)] = toLowerCaseCh(a[MinOf(d3)]) THEN -1 ELSE 1

\* the comparator of entries.sort: market, then title
compareEntries(a, b) ==
  IF localeCompare(a.market, b.market) # 0 THEN localeCompare(a.market, b.market)
  ELSE localeCompare(a.title, b.title)

\* Array.prototype.sort is stable: an entry goes after those not greater
RECURSIVE sortEntries(_, _, _)
sortEntries(entries, k, sorted) ==
  IF k > Len(entries) THEN sorted
  ELSE LET n == Cardinality({i \in 1..Len(sorted) :
                               compareEntries(sorted[i], entries[k]) <= 0})
       IN sortEntries(entries, k + 1,
                      SubSeq(sorted, 1, n) \o <<entries[k]>> \o SubSeq(sorted, n + 1, Len(sorted)))

\* one pass of the loop over the files: st is the run, doc the file
processFile(st, doc) ==
  IF doc.ext = "xlsx" THEN
    IF ~doc.parses THEN [st EXCEPT !.pc = "failed"]
    ELSE IF includes(toLowerCase(doc.name), <<"g","l","o","s","s","a","r","y">>)
      THEN [st EXCEPT !.k = @ + 1,
                      !.written = Append(@, [path |-> <<"g","l","o","s","s","a","r","y",".","j",
                                                        "s","o","n">>,
                                             entries |-> <<>>, of |-> doc.name])]
    ELSE IF \/ includes(toLowerCase(doc.name), <<"c","u","i","s","i","n","e">>)
            \/ includes(toLowerCase(doc.name), <<"t","a","g">>)
      THEN [st EXCEPT !.k = @ + 1,
                      !.written = Append(@, [path |-> <<"t","a","g","s",".","j","s","o","n">>,
                                             entries |-> <<>>, of |-> doc.name])]
    ELSE [st EXCEPT !.k = @ + 1]
  ELSE IF ~doc.parses THEN [st EXCEPT !.k = @ + 1]
  ELSE [st EXCEPT !.k = @ + 1,
                  !.buckets = pushSections(@, st.mode, doc.name, doc.sections, 1)]

(***************************************************************************)
(* A run of the ingest script (SpecIngest).                                *)
(***************************************************************************)
Doc(name, ext, parses, sections) ==
  [name |-> name, ext |-> ext, parses |-> parses, sections |-> sections]

\* a sentence of n characters
Sentence(ch, n) == Rep(ch, n - 1) \o <<".">>

\* an outline with a short section and one of three sentences over the
\* smart cap; a deck with a slide of five sentences over the full cap; an
\* outline whose first sentence alone is over the smart cap; an outline
\* that cannot be parsed; a deck without text; a glossary workbook; a
\* workbook that cannot be read
DOCS ==
  { Doc(<<"T","a","g","s","_","P","o","l","i","c","y",".","d","o","c","x">>, "docx", TRUE,
        << [title |-> <<"T","a","g","s","_","P","o","l","i","c","y",".","d","o","c","x">> \o <<" ","mdash"," ","I","n","t","r","o">>,
            text |-> <<"U","s","e"," ","t","a","g","s",".">>],
           [title |-> <<"T","a","g","s","_","P","o","l","i","c","y",".","d","o","c","x">> \o <<" ","mdash"," ","R","u","l","e","s">>,
            text |-> Sentence("x", 700) \o <<" ">> \o Sentence("y", 400) \o <<" ">>
                       \o Sentence("z", 700)] >>),
    Doc(<<"d","e","c","k",".","p","p","t","x">>, "pptx", TRUE,
        << [title |-> <<"d","e","c","k",".","p","p","t","x">> \o <<" ","mdash"," ","S","l","i","d","e"," ","1">>,
            text |-> <<"bull", " ">> \o Sentence("x", 618) \o <<"\n", "bull", " ">>
                       \o Sentence("y", 618) \o <<" ">> \o Sentence("z", 620) \o <<" ">>
                       \o Sentence("x", 620) \o <<" ">> \o Sentence("y", 620)] >>),
    Doc(<<"b","i","g",".","d","o","c","x">>, "docx", TRUE,
        << [title |-> <<"b","i","g",".","d","o","c","x">> \o <<" ","mdash"," ","D","o","c","u","m","e","n","t">>,
            text |-> Sentence("x", 1300) \o <<" ">> \o <<"S","t","o","p",".">>] >>),
    Doc(<<"b","r","o","k","e","n",".","d","o","c","x">>, "docx", FALSE, <<>>),
    Doc(<<"e","m","p","t","y",".","p","p","t","x">>, "pptx", TRUE, <<>>),
    Doc(<<"G","l","o","s","s","a","r","y",".","x","l","s","x">>, "xlsx", TRUE, <<>>),
    Doc(<<"z","o","n","e","s",".","x","l","s","x">>, "xlsx", FALSE, <<>>) }

MaxFiles == 3

\* the lists of at most MaxFiles different documents
BATCHES ==
  { fs \in UNION { [1..n -> DOCS] : n \in 0..MaxFiles } :
      \A i \in 1..Len(fs) : \A j \in 1..Len(fs) : i # j => fs[i] # fs[j] }

IngestInit ==
  /\ \E mode \in {"smart", "full"} : \E files \in BATCHES :
       ingest = [pc |-> "scan", mode |-> mode, files |-> files, k |-> 0, buckets |-> <<>>,
                 written |-> <<>>]
  /\ question = <<>>
  /\ marketPref = <<>>
  /\ chunks = <<>>
  /\ pcR = "ingest"
  /\ ranked = NONE
  /\ answer = NONE
  /\ permuted = NONE
  /\ answerPerm = NONE
  /\ answerLines = NONE
  /\ generated = NONE
  /\ env = [key |-> FALSE, mode |-> "off"]
  /\ disk = <<>>
  /\ _cache = [loaded |-> FALSE, list |-> <<>>]
  /\ _aiCalls = 0
  /\ genCalls = 0
  /\ _aiCache = <<>>
  /\ now = 0
  /\ reqs = <<>>

\* main: the next file of the loop
ProcessFile ==
  /\ ingest.pc = "scan"
  /\ ingest.k < Len(ingest.files)
  /\ ingest' = processFile(ingest, ingest.files[ingest.k + 1])
  /\ UNCHANGED <<rankVars, srvVars>>

\* main: after the last file every bucket is sorted and written
WriteCollections ==
  /\ ingest.pc = "scan"
  /\ ingest.k = Len(ingest.files)
  /\ ingest' = [ingest EXCEPT
       !.pc = "done",
       !.written = @ \o Eager([b \in 1..Len(ingest.buckets) |->
                                 [path |-> ingest.buckets[b].path,
                                  entries |-> sortEntries(ingest.buckets[b].entries, 1, <<>>),
                                  of |-> <<>>]])]
  /\ UNCHANGED <<rankVars, srvVars>>

IngestNext == ProcessFile \/ WriteCollections

SpecIngest == IngestInit /\ [][IngestNext]_vars

(***************************************************************************)
(* Properties of the ask routes (Spec).                                    *)
(***************************************************************************)
\* C1: an item answered for a request with forceRAG set never had
\* callGeminiAPI invoked, and its answer is the text buildAnswer gives for
\* the item, the market and the cached knowledge list; the request never
\* waits on the generation service.
C1_ForcedRagIsBuildAnswer ==
  \A r \in 1..MaxReq :
    reqs[r].forceRAG =>
      /\ reqs[r].pc \notin {"fetch", "sleep"}
      /\ \A k \in 1..Len(reqs[r].results) :
           /\ ~reqs[r].results[k].called
           /\ reqs[r].results[k].answer =
                buildAnswer(_cache.list, reqs[r].results[k].label,
                            marketOf(reqs[r].market).v).text

\* a request answered with forceRAG set, from a store that holds chunks,
\* while the generator is enabled
C1_Witness ==
  \E r \in 1..MaxReq :
    /\ reqs[r].forceRAG
    /\ aiEnabled(env)
    /\ reqs[r].pc = "done"
    /\ reqs[r].response.status = 200
    /\ reqs[r].results # <<>>
    /\ reqs[r].results[1].sources # <<>>

\* C2: when callGeminiAPI returned null for an item, the answer of the item
\* is the text buildAnswer computed for it, and the request responds 200
\* with that answer or goes on to its next item.
C2_NullFallsBackToRagText ==
  \A r \in 1..MaxReq : \A k \in 1..Len(reqs[r].results) :
    LET res == reqs[r].results[k]
    IN (res.called /\ ~res.ai.ok) =>
         /\ res.answer = res.rag
         /\ res.answer # <<>>
         /\ reqs[r].response.status \in {0, 200}
         /\ \/ reqs[r].pc = "done" /\ reqs[r].response.status = 200
            \/ reqs[r].pc \in {"fetch", "sleep"} /\ reqs[r].i > k
         /\ (Len(reqs[r].items) = 1 /\ reqs[r].pc = "done") =>
              reqs[r].response.answer = res.rag

\* a one-line request answered after every model failed, with sources
C2_Witness ==
  \E r \in 1..MaxReq :
    /\ reqs[r].pc = "done"
    /\ Len(reqs[r].items) = 1
    /\ reqs[r].results # <<>>
    /\ reqs[r].results[1].called
    /\ ~reqs[r].results[1].ai.ok
    /\ reqs[r].results[1].sources # <<>>
    /\ reqs[r].response.status = 200

\* C4: a request whose buildAnswer yielded no sources never waits on the
\* generation service.
C4_NoGeneratorCallOnEmptyStore ==
  \A r \in 1..MaxReq :
    reqs[r].pc \in {"fetch", "sleep"} => reqs[r].rag.sources # <<>>

\* C11: once getKnowledge has returned, no step changes the cached list,
\* and getKnowledge returns that list whatever the directories hold, an
\* empty list included.
C11_LoadedOnce ==
  [][_cache.loaded =>
       /\ _cache' = _cache
       /\ \A d \in 1..Len(DISKS) : getKnowledge(_cache', DISKS[d]) = _cache]_vars

\* the first load found no file, the directories hold files now, and two
\* requests were answered from the empty list
C11_Witness ==
  /\ _cache.loaded
  /\ _cache.list = <<>>
  /\ disk = D_SOP
  /\ \A r \in 1..2 : /\ reqs[r].pc = "done"
                      /\ reqs[r].results # <<>>
                      /\ reqs[r].results[1].sources = <<>>

\* C12: a call of callGeminiAPI is at a model of the list and at one of 3
\* attempts on it (so it sends at most 9 requests); it starts at the first
\* model and moves only to the next attempt on the model or to the first
\* attempt on the next model; once the result of an item is there, no
\* request is made for it; the result is a text or null; and when every
\* request settles and every timer fires, the call returns.
C12_Waiting(r) == reqs[r].pc \in {"fetch", "sleep"}

C12_Bounded ==
  \A r \in 1..MaxReq :
    /\ C12_Waiting(r) =>
         /\ reqs[r].m \in 1..Len(MODELS(env.mode))
         /\ reqs[r].attempt \in 1..3
         /\ (reqs[r].m - 1) * 3 + reqs[r].attempt <= 9
         /\ reqs[r].i = Len(reqs[r].results) + 1
    /\ \A k \in 1..Len(reqs[r].results) :
         reqs[r].results[k].ai.ok = (reqs[r].results[k].ai.text # <<>>)

C12_InOrder ==
  \A r \in 1..MaxReq :
    LET a == reqs[r]
        b == reqs'[r]
    IN (b.pc \in {"fetch", "sleep"}) =>
         IF a.pc \in {"fetch", "sleep"} /\ b.i = a.i
         THEN \/ b = a
              \/ b.m = a.m /\ b.attempt = a.attempt /\ a.pc = "fetch" /\ b.pc = "sleep"
              \/ b.m = a.m /\ b.attempt = a.attempt + 1 /\ a.pc = "sleep" /\ b.pc = "fetch"
              \/ b.m = a.m + 1 /\ b.attempt = 1 /\ b.pc = "fetch"
         ELSE b.pc = "fetch" /\ b.m = 1 /\ b.attempt = 1

C12_CallGeminiFinishes ==
  /\ []C12_Bounded
  /\ [][C12_InOrder]_vars
  /\ \A r \in 1..MaxReq : \A k \in 1..2 :
       (C12_Waiting(r) /\ reqs[r].i = k) ~> (Len(reqs[r].results) >= k)

\* the third attempt on the third model is waiting for its reply
C12_Witness ==
  \E r \in 1..MaxReq :
    reqs[r].pc = "fetch" /\ reqs[r].m = 3 /\ reqs[r].attempt = 3

\* C13: no request waits on the generation service right after a reply
\* with a client error status (code is the status of the last reply of the
\* call, 0 once the call sleeps or returns).
C13_ClientErrorAbandons ==
  \A r \in 1..MaxReq :
    reqs[r].pc = "fetch" => reqs[r].code \notin 400..428 \cup 430..499

\* C14: a request invokes callGeminiAPI at most once.
C14_OneCallPerRequest ==
  \A r \in 1..MaxReq : started(reqs[r]) <= 1

\* C15: between two resets of _aiCalls, callGeminiAPI is invoked at most
\* MAX_PER_MIN times.
C15_CallsWithinBudget == genCalls <= MAX_PER_MIN

\* C17: a response to a request with a message carries an answer and no
\* text of an exception.
C17_NoRawException ==
  \A r \in 1..MaxReq :
    (reqs[r].pc = "done" /\ reqs[r].items # <<>>) =>
      /\ reqs[r].response.answer # <<>>
      /\ reqs[r].response.details = ""

\* C18: the generated text a request answers with came from a reply to a
\* fetch of that request (cacheKey is set when a request starts to fetch),
\* not from what another request wrote.
C18_OwnGeneration ==
  \A r \in 1..MaxReq :
    (Len(reqs[r].items) = 1 /\ reqs[r].results # <<>> /\ reqs[r].results[1].ai.ok) =>
      reqs[r].cacheKey # <<>>

\* C28: the counter of the gatekeeper stays within 0..MAX_PER_MIN.  With
\* the generator enabled a request is flagged forceRAG exactly when the
\* counter equals MAX_PER_MIN on arrival and is counted exactly when it is
\* not flagged; the counter changes otherwise only by the reset to 0; with
\* the generator disabled no request is flagged or counted.
C28_Arrival ==
  /\ _aiCalls' # _aiCalls =>
       \/ _aiCalls' = 0
       \/ aiEnabled(env) /\ _aiCalls < MAX_PER_MIN /\ _aiCalls' = _aiCalls + 1
  /\ \A r \in 1..MaxReq :
       (reqs[r].pc = "idle" /\ reqs'[r].pc # "idle") =>
         /\ reqs'[r].forceRAG = (aiEnabled(env) /\ _aiCalls = MAX_PER_MIN)
         /\ _aiCalls' = IF aiEnabled(env) /\ ~reqs'[r].forceRAG THEN _aiCalls + 1
                        ELSE _aiCalls

C28_CounterWithinBudget == [](_aiCalls \in 0..MAX_PER_MIN) /\ [][C28_Arrival]_vars

\* a request that arrived with the counter at MAX_PER_MIN and was flagged
C28_Witness ==
  /\ aiEnabled(env)
  /\ _aiCalls = MAX_PER_MIN
  /\ \E r \in 1..MaxReq : reqs[r].pc # "idle" /\ reqs[r].forceRAG

(***************************************************************************)
(* Properties of answerOne as a function (SpecText).                       *)
(***************************************************************************)
\* the generated text is null, blank, or empty once sanitized
unusable(ai) ==
  \/ ~ai.ok
  \/ trim(ai.text) = <<>>
  \/ sanitizeAnswer(trim(ai.text)) = <<>>

\* C16: when the generated text is unusable, the answer of answerOne is
\* the text of buildAnswer.
C16_UnusableFallsBack ==
  (pcR = "answerOne" /\ unusable(generated)) => answer.answer = answer.rag.text

(***************************************************************************)
(* Properties of getKnowledge as a function of the files (SpecLoad).       *)
(***************************************************************************)
\* the collection file of the knowledge directory, and member k of a record
loadedFile == disk[2].files[1]

member(rec, k) == (CHOOSE m \in Range(rec.v) : m.k = k).v.v

\* C19: a file that is a list of chunk records loads into one chunk per
\* record, in file order, with the title, market, topic and text of the record.
C19_RecordsRoundTrip ==
  LET recs == loadedFile.json.v
  IN (_cache.loaded /\ recs # <<>> /\ \A i \in 1..Len(recs) : recs[i].t = "obj") =>
       _cache.list = [i \in 1..Len(recs) |->
                        Chunk(member(recs[i], "title"), member(recs[i], "market"),
                              member(recs[i], "topic"), member(recs[i], "text"))]

\* C20: a file that is a list of k strings loads into k chunks, the i-th
\* with the i-th string as its text, market ALL and the topic of the file.
C20_StringsLoadOneEach ==
  LET strs == loadedFile.json.v
  IN (_cache.loaded /\ strs # <<>> /\ \A i \in 1..Len(strs) : strs[i].t = "str") =>
       /\ Len(_cache.list) = Len(strs)
       /\ \A i \in 1..Len(strs) :
            /\ _cache.list[i].text = strs[i].v
            /\ _cache.list[i].market = M_ALL
            /\ _cache.list[i].topic = guessTopicFromName(loadedFile.name)

\* C21: a file with at least one non-empty text line loads into at least
\* one chunk, and when none of its lines is rule-like the chunks are its
\* lines, unfiltered and in order.
C21_NeverDropsContent ==
  LET lines == explodeToLines(loadedFile.json)
  IN (_cache.loaded /\ lines # <<>>) =>
       /\ _cache.list # <<>>
       /\ (\A i \in 1..Len(lines) : ~isRuleLike(lines[i])) =>
            [i \in 1..Len(_cache.list) |-> _cache.list[i].text] = lines

(***************************************************************************)
(* Properties of buildGroundedPrompt as a function (SpecPrompt).           *)
(***************************************************************************)
\* the lines of the prompt after the line "SOP facts:"
factLines ==
  LET ls == splitNewline(answer.prompt)
      at == {k \in 1..Len(ls) : ls[k] = <<"S","O","P"," ","f","a","c","t","s",":">>}
  IN SubSeq(ls, MinOf(at) + 1, Len(ls))

\* the text a fact line renders: what follows the first "]: "
renderedText(line) ==
  SubSeq(line, MinOf({k \in 1..Len(line) : matchAt(line, <<"]", ":", " ">>, k - 1)}) + 3,
         Len(line))

\* C27: the prompt renders the first 3 sources only, one line each and in
\* order; the text of a line is the normalized text of its source when that
\* has at most 1200 characters, and its first 1200 characters followed by
\* the ellipsis marker when it is longer.
C27_ContextBounded ==
  pcR = "prompt" =>
    \E lines \in {factLines} :
      /\ Len(lines) = Min2(3, Len(chunks))
      /\ \A i \in 1..Len(lines) :
           \E title \in {chunks[i].title} :
           \E out \in {renderedText(lines[i])} :
           \E full \in {trim(blanksToOne(beforeNewline(removeFences(chunks[i].text, 0))))} :
             /\ title # <<>> => SubSeq(lines[i], 3, 2 + Len(title)) = title
             /\ Len(full) <= 1200 => out = full
             /\ Len(full) > 1200 =>
                  /\ Len(out) = 1202
                  /\ SubSeq(out, 1, 1200) = SubSeq(full, 1, 1200)
                  /\ SubSeq(out, 1201, 1202) = <<" ", "hellip">>

\* four sources, the third of them over the cap: the fourth is not
\* rendered and the third is cut
C27_Witness ==
  /\ pcR = "prompt"
  /\ Len(chunks) = 4
  /\ Len(chunks[3].text) > 1200
  /\ Len(factLines) = 3

(***************************************************************************)
(* Properties of the cache of generated texts (SpecCache).                 *)
(***************************************************************************)
\* C29: the cache never holds more than 500 entries; when a call writes a
\* new key into a cache of 500, the entry removed is the first in insertion
\* order and the entry written stays; a text is returned from the cache
\* only while its entry is no older than the TTL, and an older entry is
\* deleted by the read.
C29_Call ==
  genCalls' = genCalls + 1 =>
    \E key \in {cacheKeyOf(env.mode, answer'.prompt)} :
    \E i \in {cacheIndex(_aiCache, key)} :
    \E written \in {[key |-> key, at |-> now, text |-> answer'.text]} :
      /\ ~answer'.queried =>
           /\ i # 0
           /\ now - _aiCache[i].at <= TTL
           /\ answer'.text = _aiCache[i].text
      /\ (i # 0 /\ now - _aiCache[i].at > TTL) =>
           /\ answer'.queried
           /\ _aiCache[i] \notin Range(_aiCache')
      /\ (i = 0 /\ answer'.ok /\ Len(_aiCache) = CACHE_MAX) =>
           _aiCache' = Tail(_aiCache) \o <<written>>

C29_CacheBounded == [](Len(_aiCache) <= CACHE_MAX) /\ [][C29_Call]_vars

\* a new key was written into a full cache: the first of the earlier
\* entries is gone and the new entry is the last
C29_Witness ==
  /\ pcR = "cache"
  /\ Len(_aiCache) = CACHE_MAX
  /\ _aiCache[1].key = cacheKeyOf("flash", earlierPrompt(2))
  /\ _aiCache[CACHE_MAX].key = cacheKeyOf("flash", <<"n","e","w">>)

\* C30: a text returned without a request to the service is the text that
\* was generated for the prompt of the call.
C30_CachedTextIsOfThePrompt ==
  (pcR = "cache" /\ genCalls > 0 /\ ~answer.queried) => answer.text = textFor(answer.prompt)

(***************************************************************************)
(* Properties of the ingest classification (SpecClassify).                 *)
(***************************************************************************)
\* C24: the topic and the market of a section are the labels of the first
\* rule, in table order, whose pattern matches the lowercased name,
\* newline and text, and misc / ALL when no rule matches.
C24_FirstMatchWins ==
  ingest.pc = "classified" =>
    \E hay \in {toLowerCase(ingest.name \o <<"\n">> \o ingest.text)} :
    \E ts \in {{k \in 1..Len(TOPIC_HINTS) : testTopicHint(k, hay)}} :
    \E ms \in {{k \in 1..Len(MARKET_HINTS) : testMarketHint(k, hay)}} :
      /\ ingest.topic = IF ts = {} THEN T_misc ELSE TOPIC_HINTS[MinOf(ts)]
      /\ ingest.market = IF ms = {} THEN M_ALL ELSE MARKET_HINTS[MinOf(ms)]

\* a section that two topic rules and two market rules match
C24_Witness ==
  /\ ingest.pc = "classified"
  /\ \E hay \in {toLowerCase(ingest.name \o <<"\n">> \o ingest.text)} :
       /\ Cardinality({k \in 1..Len(TOPIC_HINTS) : testTopicHint(k, hay)}) >= 2
       /\ Cardinality({k \in 1..Len(MARKET_HINTS) : testMarketHint(k, hay)}) >= 2

\* C25: the topic rag.js assigns to a text as a query is the topic
\* make_knowledge.mjs assigns to the same text with an empty file name.
C25_SameTopicTable ==
  (ingest.pc = "classified" /\ ingest.name = <<>>) => ingest.queryTopic = ingest.topic

(***************************************************************************)
(* Properties of a run of the ingest script (SpecIngest).                  *)
(***************************************************************************)
\* the entries of a list whose title begins with the text p, in list order
titled(entries, p) == SelectSeq(entries, LAMBDA e : matchAt(e.title, p, 0))

\* every entry of every bucket, bucket by bucket
RECURSIVE allEntries(_, _)
allEntries(bs, b) == IF b > Len(bs) THEN <<>> ELSE bs[b].entries \o allEntries(bs, b + 1)

\* the parts are runs of whole sentences, in order, joined by one space
RECURSIVE partsCover(_, _)
partsCover(parts, sentences) ==
  IF parts = <<>> THEN sentences = <<>>
  ELSE \E n \in 1..Len(sentences) :
         /\ joinWith(SubSeq(sentences, 1, n), <<" ">>) = parts[1]
         /\ partsCover(Tail(parts), SubSeq(sentences, n + 1, Len(sentences)))

\* C22: every chunk written has a text of at most the cap of the mode, or
\* a text that is one sentence; a document with N sections has at least N
\* chunks written.
C22_ChunksWithinCap ==
  ingest.pc = "done" =>
    \E es \in {allEntries(ingest.written, 1)} :
      /\ \A i \in 1..Len(es) :
           \/ Len(es[i].text) <= (IF ingest.mode = "full" THEN MAX_CHARS_FULL
                                  ELSE MAX_CHARS_SMART)
           \/ Len(sentencesFrom(es[i].text, 0)) = 1
      /\ \A f \in 1..Len(ingest.files) :
           ingest.files[f].parses =>
             Len(titled(es, ingest.files[f].name)) >= Len(ingest.files[f].sections)

\* C23: in smart mode the chunks of a section over the cap are titled
\* (part 1), (part 2), ... in the order they were pushed, and their texts
\* are runs of whole sentences of the section that follow one another and
\* leave none out.
C23_SplitKeepsSentences ==
  (pcR = "ingest" /\ ingest.mode = "smart") =>
    \A f \in 1..ingest.k : \A s \in 1..Len(ingest.files[f].sections) :
      \E sec \in {ingest.files[f].sections[s]} :
        (ingest.files[f].parses /\ Len(sec.text) > MAX_CHARS_SMART) =>
          \E es \in {titled(allEntries(ingest.buckets, 1), sec.title)} :
            /\ \A i \in 1..Len(es) :
                 es[i].title = sec.title \o <<" ","(","p","a","r","t"," ">> \o decimal(i)
                                 \o <<")">>
            /\ partsCover(Eager([i \in 1..Len(es) |-> es[i].text]),
                          sentencesFrom(sec.text, 0))

\* a section of three sentences was split into two parts
C23_Witness ==
  /\ pcR = "ingest"
  /\ ingest.mode = "smart"
  /\ \E f \in 1..ingest.k : \E s \in 1..Len(ingest.files[f].sections) :
       /\ Len(sentencesFrom(ingest.files[f].sections[s].text, 0)) = 3
       /\ Len(titled(allEntries(ingest.buckets, 1), ingest.files[f].sections[s].title)) = 2

\* C26: when the run has ended, every document that parses and has
\* sections has its chunks in a collection file that was written.
C26_FailureSkipsOneDocument ==
  (pcR = "ingest" /\ ingest.pc \in {"done", "failed"}) =>
    \A f \in 1..Len(ingest.files) :
      (ingest.files[f].parses /\ ingest.files[f].sections # <<>>) =>
        titled(allEntries(ingest.written, 1), ingest.files[f].name) # <<>>

====
